---- MODULE Spec2Model ----
(***************************************************************************)
(* Model of the translation and localisation pipeline:                     *)
(*   src/src/translator.py      HTMLTranslator (shield, translate, restore, *)
(*                              reassemble, write)                          *)
(*   src/src/link_localizer.py  LinkLocalizer (URL mapping, link rewriting) *)
(*   src/src/header_info_adder.py  HeaderInfoAdder (provenance header)      *)
(*   src/main.py                TranslationPipeline (batch steps, pipeline) *)
(*   src/src/crawler.py         WebCrawler (fetch with retries, save)       *)
(*                                                                         *)
(* Markup is a sequence of tokens.  A token is a record [kind, name]:       *)
(*   open/close tags, text nodes, comments, and the placeholder element     *)
(*   <span data-math-placeholder="K">K</span>, written Span(K).             *)
(* A parsed tree is the same sequence with elements being the spans between *)
(* an opening tag and its matching closing tag.                             *)
(***************************************************************************)
EXTENDS Integers, Sequences, FiniteSets, TLC

VARIABLES
    math_content_store, \* HTMLTranslator.math_content_store: token -> markup
    sh,                 \* one shield / translate / restore round trip
    tr,                 \* the running translate_html call and its locals
    trans_dir,          \* files of TRANS_DIR written by translate_html
    uf,                 \* one _url_to_filename evaluation
    urls_config,        \* lines of the URL manifest file
    out_files,          \* names of the *.html files in LinkLocalizer.trans_dir
    page,               \* content of the file that process_html_file works on
    url_mapping,        \* LinkLocalizer.url_mapping
    stats,              \* LinkLocalizer.stats
    lk,                 \* locals and results of the last LinkLocalizer call
    page_name,          \* name of the file whose content is `page`
    file_url_mapping,   \* HeaderInfoAdder.file_url_mapping
    hstats,             \* HeaderInfoAdder.stats
    hd,                 \* locals and results of the last HeaderInfoAdder call
    batch,              \* the running batch step: its files and loop position
    ex,                 \* one extract_html_parts evaluation
    pl,                 \* the running run_full_pipeline call and self.stats
    cr                  \* the running batch_crawl call and the files of ORIGIN_DIR

vars == <<math_content_store, sh, tr, trans_dir, uf, urls_config, out_files, page,
          url_mapping, stats, lk, page_name, file_url_mapping, hstats, hd, batch, ex,
          pl, cr>>

translatorVars == <<math_content_store, sh, tr, trans_dir, ex>>
mapperVars == <<uf, urls_config, out_files, page, url_mapping, stats, lk>>
annotatorVars == <<page_name, file_url_mapping, hstats, hd>>
pipelineVars == <<pl, cr>>

(***************************************************************************)
(* Bounds of the model.                                                    *)
(***************************************************************************)
MaxBodyLen == 5     \* tokens inside <body> in the round-trip specification
MaxPathLen == 5     \* pieces of the URL path in the _url_to_filename specification
MaxManifest == 2    \* lines of the URL manifest
MaxLinks == 2       \* elements with href / src in a page
MaxRuns == 2        \* process_html_file runs on the page

(***************************************************************************)
(* Generic sequence helpers.                                               *)
(***************************************************************************)
RECURSIVE Flatten(_)
Flatten(ss) == IF ss = << >> THEN << >> ELSE Head(ss) \o Flatten(Tail(ss))

RECURSIVE CountTok(_, _)
CountTok(s, t) ==
    IF s = << >> THEN 0
    ELSE (IF Head(s) = t THEN 1 ELSE 0) + CountTok(Tail(s), t)

Range(s) == {s[i] : i \in DOMAIN s}

IsPrefix(p, s) == Len(p) <= Len(s) /\ SubSeq(s, 1, Len(p)) = p

SeqsUpTo(S, n) == UNION {[1..k -> S] : k \in 0..n}

(***************************************************************************)
(* Markup tokens.                                                          *)
(***************************************************************************)
Open(n) == [kind |-> "open", name |-> n]
Close(n) == [kind |-> "close", name |-> n]
Text(t) == [kind |-> "text", name |-> t]
CommentTok == [kind |-> "comment", name |-> "c"]
Span(key) == [kind |-> "placeholder", name |-> key]

MJX == "mjx-container"

BodyTokens == {Text("x"), CommentTok, Open(MJX), Close(MJX), Open("div"), Close("div")}

\* Every tag opened in the sequence is closed within it, properly nested.
RECURSIVE WellNested(_, _)
WellNested(s, stack) ==
    IF s = << >> THEN stack = << >>
    ELSE LET t == Head(s) IN
         IF t.kind = "open" THEN WellNested(Tail(s), <<t.name>> \o stack)
         ELSE IF t.kind = "close"
              THEN /\ stack # << >>
                   /\ Head(stack) = t.name
                   /\ WellNested(Tail(s), Tail(stack))
              ELSE WellNested(Tail(s), stack)

\* str(body_tag): the body element with its children.
BodyOf(inner) == <<Open("body")>> \o inner \o <<Close("body")>>

Bodies(n) == {BodyOf(s) : s \in {x \in SeqsUpTo(BodyTokens, n) : WellNested(x, << >>)}}

\* Index of the closing tag matching the opening tag at index i.
RECURSIVE MatchFrom(_, _, _)
MatchFrom(s, j, depth) ==
    IF j > Len(s) THEN Len(s)
    ELSE IF s[j].kind = "open" THEN MatchFrom(s, j + 1, depth + 1)
    ELSE IF s[j].kind = "close"
         THEN IF depth = 1 THEN j ELSE MatchFrom(s, j + 1, depth - 1)
    ELSE MatchFrom(s, j + 1, depth)

MatchClose(s, i) == MatchFrom(s, i + 1, 1)

\* soup.find_all(name): the opening-tag indices of the elements, in document order.
RECURSIVE FindAllFrom(_, _, _)
FindAllFrom(s, name, i) ==
    IF i > Len(s) THEN << >>
    ELSE (IF s[i] = Open(name) THEN <<i>> ELSE << >>) \o FindAllFrom(s, name, i + 1)

FindAll(s, name) == FindAllFrom(s, name, 1)

\* str(element) of the element that opens at index i.
Markup(s, i) == SubSeq(s, i, MatchClose(s, i))

\* The markup of every mjx-container of s, in document order.
Containers(s) == [k \in DOMAIN FindAll(s, MJX) |-> Markup(s, FindAll(s, MJX)[k])]

\* comment.extract() for every Comment node of the tree.
RemoveComments(s) == SelectSeq(s, LAMBDA t : t.kind # "comment")

\* f"{i:03d}"
Pad3(i) ==
    IF i < 10 THEN "00" \o ToString(i)
    ELSE IF i < 100 THEN "0" \o ToString(i)
    ELSE ToString(i)

\* f"MATH_PLACEHOLDER_{i:03d}"
Placeholder(i) == "MATH_PLACEHOLDER_" \o Pad3(i)

(***************************************************************************)
(* Content Shield: HTMLTranslator._clean_body_for_translation.             *)
(***************************************************************************)
EmptyStore == [k \in {} |-> << >>]

\* One iteration of the loop over enumerate(mjx_containers).  `orig` is the
\* comment-free tree the containers were found in, `starts` their opening-tag
\* indices in it, st.soup the tree as mutated so far.  A container that lies
\* inside an earlier one (p <= st.covered) hangs in the subtree that earlier
\* replace_with detached: it is recorded and replaced there, and the soup does
\* not change.  No descendant of a container is replaced before the container
\* itself is recorded, so str(container) is its markup in `orig`.
ShieldIter_FromOne(orig, starts, i, st) ==
    LET p == starts[i + 1]
        q == MatchClose(orig, p)
        placeholder == Placeholder(i + 1)
        store2 == (placeholder :> Markup(orig, p)) @@ st.store
    IN  IF p <= st.covered
        THEN [st EXCEPT !.store = store2]
        ELSE [soup |-> SubSeq(st.soup, 1, p - st.shift - 1)
                       \o <<Span(placeholder)>>
                       \o SubSeq(st.soup, q - st.shift + 1, Len(st.soup)),
              store |-> store2,
              shift |-> st.shift + (q - p),
              covered |-> q]

ShieldIter(orig, starts, i, st) ==
    LET p == starts[i + 1]
        q == MatchClose(orig, p)
        placeholder == Placeholder(i)
        store2 == (placeholder :> Markup(orig, p)) @@ st.store
    IN  IF p <= st.covered
        THEN [st EXCEPT !.store = store2]
        ELSE [soup |-> SubSeq(st.soup, 1, p - st.shift - 1)
                       \o <<Span(placeholder)>>
                       \o SubSeq(st.soup, q - st.shift + 1, Len(st.soup)),
              store |-> store2,
              shift |-> st.shift + (q - p),
              covered |-> q]

\* The loop, iterations i .. limit-1.
RECURSIVE ShieldLoop(_, _, _, _, _)
ShieldLoop(orig, starts, i, limit, st) ==
    IF i >= limit THEN st
    ELSE ShieldLoop(orig, starts, i + 1, limit, ShieldIter(orig, starts, i, st))

\* Where a call of _clean_body_for_translation raises, if it does.
\*   at = "none":  no exception;
\*   at = "parse": while parsing or removing comments (lines 176-180), before
\*                 the store is cleared;
\*   at = "loop":  after the store was cleared and n containers were recorded.
NoFail == [at |-> "none", n |-> 0]
ParseFail == [at |-> "parse", n |-> 0]
LoopFail(j) == [at |-> "loop", n |-> j]

\* _clean_body_for_translation(body_content) on an instance whose store is
\* `store`.  Every exception returns body_content unchanged.
\* Result: [store |-> the instance's store afterwards, out |-> returned text].
CleanBody(body_content, store, fail) ==
    IF fail.at = "parse" THEN [store |-> store, out |-> body_content]
    ELSE LET soup == RemoveComments(body_content)
             mjx_containers == FindAll(soup, MJX)
             st0 == [soup |-> soup, store |-> EmptyStore, shift |-> 0, covered |-> 0]
         IN  IF fail.at = "none"
             THEN LET st == ShieldLoop(soup, mjx_containers, 0, Len(mjx_containers), st0)
                  IN  [store |-> st.store, out |-> st.soup]
             ELSE [store |-> ShieldLoop(soup, mjx_containers, 0, fail.n, st0).store,
                   out |-> body_content]

\* The ways the shielding of body_content can end.
ShieldFailures(body_content) ==
    {NoFail, ParseFail}
    \cup {LoopFail(j) : j \in 0 .. Len(FindAll(RemoveComments(body_content), MJX))}

(***************************************************************************)
(* The external translation capability, as far as the body is concerned:   *)
(* the texts it may hand back for a body it was given.  It may keep the    *)
(* markup, translate a placeholder away, repeat one, or alter its token.   *)
(***************************************************************************)
UnknownKey == "MATH_PLACEHOLDER_999"

IsSpan(t) == t.kind = "placeholder"

FirstSpan(s) == CHOOSE i \in DOMAIN s : IsSpan(s[i]) /\ \A j \in 1..(i - 1) : ~IsSpan(s[j])

HasSpan(s) == \E i \in DOMAIN s : IsSpan(s[i])

TranslatorOutputs(body) ==
    {body} \cup
    (IF HasSpan(body)
     THEN LET i == FirstSpan(body) IN
          { SubSeq(body, 1, i - 1) \o SubSeq(body, i + 1, Len(body)),
            SubSeq(body, 1, i) \o SubSeq(body, i, Len(body)),
            [body EXCEPT ![i] = Span(UnknownKey)] }
     ELSE {})

(***************************************************************************)
(* Restoration: HTMLTranslator._restore_math_content.                      *)
(***************************************************************************)
\* BeautifulSoup(original_math).find('mjx-container'): the first container of
\* the recorded markup, << >> when there is none (None).
FirstContainer(original_math) ==
    LET found == FindAll(original_math, MJX)
    IN  IF found = << >> THEN << >> ELSE Markup(original_math, found[1])

\* (mutant) a placeholder without an entry is dropped from the output.
RestoreTok_DropUnknown(t, store) ==
    IF IsSpan(t)
    THEN IF t.name \in DOMAIN store THEN FirstContainer(store[t.name]) ELSE << >>
    ELSE <<t>>

\* What one element of the translated body becomes.
RestoreTok(t, store) ==
    IF IsSpan(t) /\ t.name \in DOMAIN store /\ FirstContainer(store[t.name]) # << >>
    THEN FirstContainer(store[t.name])
    ELSE <<t>>

\* _restore_math_content(translated_html) with the instance's store.
RestoreMath(translated_html, store) ==
    IF store = EmptyStore THEN translated_html
    ELSE Flatten([i \in DOMAIN translated_html |-> RestoreTok(translated_html[i], store)])

\* The tokens of the placeholders that the loop replaces, in order
\* (restored_count is the length).
RestoredKeys(translated_html, store) ==
    IF store = EmptyStore THEN << >>
    ELSE LET hit == SelectSeq(translated_html,
                        LAMBDA t : IsSpan(t) /\ t.name \in DOMAIN store)
         IN  [i \in DOMAIN hit |-> hit[i].name]

\* The tokens of the placeholder elements of a text, in document order.
SpanKeys(s) == LET ph == SelectSeq(s, IsSpan) IN [i \in DOMAIN ph |-> ph[i].name]


(***************************************************************************)
(* Round trip of one body through shield, translation and restoration.     *)
(***************************************************************************)
NoRoundTrip ==
    [pc |-> "unused", body |-> << >>, cleaned |-> << >>, translated |-> << >>,
     restored |-> << >>]

RoundTripStart ==
    /\ math_content_store = EmptyStore
    /\ sh \in {[pc |-> "input", body |-> b, cleaned |-> << >>,
                translated |-> << >>, restored |-> << >>] : b \in Bodies(MaxBodyLen)}

Shield ==
    /\ sh.pc = "input"
    /\ LET r == CleanBody(sh.body, math_content_store, NoFail) IN
       /\ math_content_store' = r.store
       /\ sh' = [sh EXCEPT !.pc = "shielded", !.cleaned = r.out]
    /\ UNCHANGED <<tr, trans_dir, mapperVars, annotatorVars, batch, ex, pipelineVars>>

TranslateBody ==
    /\ sh.pc = "shielded"
    /\ \E t \in TranslatorOutputs(sh.cleaned) :
          sh' = [sh EXCEPT !.pc = "translated", !.translated = t]
    /\ UNCHANGED <<math_content_store, tr, trans_dir, mapperVars, annotatorVars, batch, ex, pipelineVars>>

Restore ==
    /\ sh.pc = "translated"
    /\ sh' = [sh EXCEPT !.pc = "restored",
                        !.restored = RestoreMath(sh.translated, math_content_store)]
    /\ UNCHANGED <<math_content_store, tr, trans_dir, mapperVars, annotatorVars, batch, ex, pipelineVars>>


(***************************************************************************)
(* Documents and HTMLTranslator.translate_html.                            *)
(*                                                                         *)
(* A document is [head, body]: head = [title, description] gives the text  *)
(* of the <title> element and of <meta name="description">, Absent when    *)
(* the element is missing; body is the markup of the <body> element.       *)
(***************************************************************************)
Absent == "<absent>"

Heads ==
    {[title |-> Absent, description |-> Absent],
     [title |-> "Title", description |-> Absent],
     [title |-> "Title", description |-> "Desc"]}

\* The bodies of the documents translate_html is called with: without math,
\* with one container, with a comment and two different containers, and with
\* a container inside another.
DocBodies ==
    {BodyOf(<<Text("x")>>),
     BodyOf(<<Open(MJX), Text("x"), Close(MJX)>>),
     BodyOf(<<CommentTok, Open(MJX), Close(MJX), Open(MJX), Text("x"), Close(MJX)>>),
     BodyOf(<<Open(MJX), Open(MJX), Close(MJX), Close(MJX)>>)}

Documents == [head : Heads, body : DocBodies]

NoDoc == [head |-> [title |-> Absent, description |-> Absent], body |-> << >>]

\* extract_html_parts: title_tag.get_text() if title_tag else "", and the same
\* for the description; head and body fragments as they stand.
ExtractHtmlParts(html_content) ==
    [head_content |-> html_content.head,
     body_content |-> html_content.body,
     original_title |->
         IF html_content.head.title = Absent THEN "" ELSE html_content.head.title,
     original_description |->
         IF html_content.head.description = Absent THEN ""
         ELSE html_content.head.description]

\* What the external capability answers to a metadata request.
Zh(text) == IF text = "" THEN "" ELSE "zh:" \o text

NoMetadata == [ok |-> FALSE, title |-> "", description |-> ""]

\* _translate_metadata(title, description); response is "ok", "none" (a falsy
\* response) or "raise" (the call raised).  None is NoMetadata.
TranslateMetadata(title, description, response) ==
    IF title = "" /\ description = "" THEN NoMetadata
    ELSE IF response = "ok"
         THEN [ok |-> TRUE, title |-> Zh(title), description |-> Zh(description)]
         ELSE NoMetadata

\* (mutant) the title and description are set whether or not a text is given.
UpdateHead_Unconditional(head_content, translated_title, translated_description) ==
    [title |-> translated_title, description |-> translated_description]

\* reassemble_html, head part: the title / description elements are set when a
\* translated text is given, and created when missing.
UpdateHead(head_content, translated_title, translated_description) ==
    [title |-> IF translated_title # "" THEN translated_title ELSE head_content.title,
     description |-> IF translated_description # "" THEN translated_description
                     ELSE head_content.description]

\* reassemble_html(parts, translated_body, translated_title, translated_description)
ReassembleHtml(parts, translated_body, translated_title, translated_description, store) ==
    [head |-> UpdateHead(parts.head_content, translated_title, translated_description),
     body |-> RestoreMath(translated_body, store)]

\* The context argument: "文件: <path>" names the input file, anything else
\* does not.
Contexts == {[file |-> TRUE, name |-> "a.html"]}

\* filename = Path(input_file).name if "文件:" in context else "translated.html"
FileName(context) == IF context.file THEN context.name ELSE "translated.html"

FileNames == {FileName(c) : c \in Contexts}

NoFile == [head |-> [title |-> Absent, description |-> Absent], body |-> <<Text("<no file>")>>]

\* The locals of translate_html.  meta_response and body_response record what
\* the external capability answered in this call, outcome how the call ended,
\* dir0 the files of TRANS_DIR when the call started.
Idle(ret, outcome, dir0) ==
    [pc |-> "idle", html_content |-> NoDoc, context |-> [file |-> FALSE, name |-> ""],
     parts |-> ExtractHtmlParts(NoDoc), metadata |-> NoMetadata,
     cleaned_body |-> << >>, translated_body |-> << >>, complete_html |-> NoDoc,
     meta_response |-> "pending", body_response |-> "pending",
     ret |-> ret, outcome |-> outcome, dir0 |-> dir0]

TranslateStart ==
    /\ math_content_store = EmptyStore
    /\ trans_dir = [f \in FileNames |-> NoFile]
    /\ tr = Idle("None", "new", trans_dir)

\* translate_html(html_content, context) is called; step 1, extract_html_parts.
Call ==
    /\ tr.pc = "idle"
    /\ \E d \in Documents, c \in Contexts, raises \in BOOLEAN :
          tr' = IF raises
                THEN Idle("None", "extract_failed", trans_dir)
                ELSE [Idle("None", "running", trans_dir) EXCEPT
                         !.pc = "metadata", !.html_content = d, !.context = c,
                         !.parts = ExtractHtmlParts(d)]
    /\ UNCHANGED <<math_content_store, trans_dir, sh, mapperVars, annotatorVars, batch, ex, pipelineVars>>

\* step 2, _translate_metadata
Metadata ==
    /\ tr.pc = "metadata"
    /\ \E response \in {"ok", "none", "raise"} :
          tr' = [tr EXCEPT !.pc = "shield",
                    !.meta_response =
                        IF tr.parts.original_title = "" /\ tr.parts.original_description = ""
                        THEN "not called" ELSE response,
                    !.metadata = TranslateMetadata(tr.parts.original_title,
                                     tr.parts.original_description, response)]
    /\ UNCHANGED <<math_content_store, trans_dir, sh, mapperVars, annotatorVars, batch, ex, pipelineVars>>

\* step 3a, _clean_body_for_translation
ShieldBody ==
    /\ tr.pc = "shield"
    /\ \E fail \in ShieldFailures(tr.parts.body_content) :
          LET r == CleanBody(tr.parts.body_content, math_content_store, fail) IN
          /\ math_content_store' = r.store
          /\ tr' = [tr EXCEPT !.pc = "body", !.cleaned_body = r.out]
    /\ UNCHANGED <<trans_dir, sh, mapperVars, annotatorVars, batch, ex, pipelineVars>>

\* What the external capability may answer to a body request: nothing, an
\* empty translated_html, an exception, or a text.
BodyResponses(body_content) ==
    {[kind |-> "none", translated_html |-> << >>],
     [kind |-> "empty", translated_html |-> << >>],
     [kind |-> "raise", translated_html |-> << >>]}
    \cup {[kind |-> "text", translated_html |-> t] : t \in TranslatorOutputs(body_content)}

\* (mutant) an empty translated_html counts as a result.
TranslateBodyContent_EmptyOk(body_content, response) ==
    IF response.kind \in {"text", "empty"}
    THEN [success |-> TRUE, translated_html |-> response.translated_html]
    ELSE [success |-> FALSE, translated_html |-> << >>]

\* _translate_body_content(body_content): the result dictionary, or None
\* (success = FALSE) when body_content is empty, the call raised, or the
\* response or its translated_html is falsy.
TranslateBodyContent(body_content, response) ==
    IF body_content = << >> THEN [success |-> FALSE, translated_html |-> << >>]
    ELSE IF response.kind = "text" /\ response.translated_html # << >>
         THEN [success |-> TRUE, translated_html |-> response.translated_html]
         ELSE [success |-> FALSE, translated_html |-> << >>]

\* step 3b, _translate_body_content, and the check of its result: without a
\* usable result translate_html returns None.
BodyFails ==
    /\ tr.pc = "body"
    /\ \E response \in BodyResponses(tr.cleaned_body) :
          /\ ~TranslateBodyContent(tr.cleaned_body, response).success
          /\ tr' = [Idle("None", "body_failed", tr.dir0) EXCEPT
                       !.body_response = response.kind]
    /\ UNCHANGED <<math_content_store, trans_dir, sh, mapperVars, annotatorVars, batch, ex, pipelineVars>>

BodyTranslated ==
    /\ tr.pc = "body"
    /\ \E response \in BodyResponses(tr.cleaned_body) :
          LET result == TranslateBodyContent(tr.cleaned_body, response) IN
          /\ result.success
          /\ tr' = [tr EXCEPT !.pc = "reassemble", !.body_response = response.kind,
                              !.translated_body = result.translated_html]
    /\ UNCHANGED <<math_content_store, trans_dir, sh, mapperVars, annotatorVars, batch, ex, pipelineVars>>

\* (mutant) the call goes on to the write when reassemble_html raised.
Reassemble_WriteOnFailure ==
    /\ tr.pc = "reassemble"
    /\ \E raises \in BOOLEAN :
          tr' = IF raises
                THEN [tr EXCEPT !.pc = "write"]
                ELSE [tr EXCEPT !.pc = "write",
                         !.complete_html =
                             ReassembleHtml(tr.parts, tr.translated_body,
                                 tr.metadata.title, tr.metadata.description,
                                 math_content_store)]
    /\ UNCHANGED <<math_content_store, trans_dir, sh, mapperVars, annotatorVars, batch, ex, pipelineVars>>

\* step 4, reassemble_html
Reassemble ==
    /\ tr.pc = "reassemble"
    /\ \E raises \in BOOLEAN :
          tr' = IF raises
                THEN [Idle("None", "reassemble_failed", tr.dir0) EXCEPT
                         !.meta_response = tr.meta_response,
                         !.body_response = tr.body_response]
                ELSE [tr EXCEPT !.pc = "write",
                         !.complete_html =
                             ReassembleHtml(tr.parts, tr.translated_body,
                                 tr.metadata.title, tr.metadata.description,
                                 math_content_store)]
    /\ UNCHANGED <<math_content_store, trans_dir, sh, mapperVars, annotatorVars, batch, ex, pipelineVars>>

\* the file is written and its path returned
WriteFile ==
    /\ tr.pc = "write"
    /\ trans_dir' = [trans_dir EXCEPT ![FileName(tr.context)] = tr.complete_html]
    /\ tr' = [tr EXCEPT !.pc = "idle", !.ret = FileName(tr.context), !.outcome = "written"]
    /\ UNCHANGED <<math_content_store, sh, mapperVars, annotatorVars, batch, ex, pipelineVars>>


(***************************************************************************)
(* URLs, file names and hrefs are strings, modelled as sequences of pieces: *)
(* Dom is "https://jax-ml.github.io", Other another scheme and host,        *)
(* "/" a slash, "#" the fragment sign, "mailto:" a scheme, ".html" the      *)
(* extension, and "scaling-book", "a", "b" pieces of text without slash.    *)
(* Concatenation, prefix test, strip, split and replace work on the pieces  *)
(* as the string methods work on characters.                                *)
(***************************************************************************)
Dom == "https://jax-ml.github.io"
Other == "https://example.org"
SB == "scaling-book"

\* self.base_domain = "https://jax-ml.github.io/scaling-book"
base_domain == <<Dom, "/", SB>>

RootFile == <<SB, ".html">>

\* s.rstrip('/'), s.lstrip('/'), s.strip('/')
RECURSIVE RStrip(_)
RStrip(s) == IF s # << >> /\ s[Len(s)] = "/" THEN RStrip(SubSeq(s, 1, Len(s) - 1)) ELSE s

RECURSIVE LStrip(_)
LStrip(s) == IF s # << >> /\ Head(s) = "/" THEN LStrip(Tail(s)) ELSE s

Strip(s) == RStrip(LStrip(s))

\* The text before the first "#".
RECURSIVE BeforeHash(_)
BeforeHash(s) ==
    IF s = << >> \/ Head(s) = "#" THEN << >> ELSE <<Head(s)>> \o BeforeHash(Tail(s))

\* urlparse(url).path: what follows scheme and host, without the fragment.
UrlPath(url) ==
    IF url # << >> /\ Head(url) \in {Dom, Other, "mailto:"}
    THEN BeforeHash(Tail(url))
    ELSE BeforeHash(url)

\* s.replace(old, "")
RECURSIVE Remove(_, _)
Remove(s, old) ==
    IF s = << >> THEN << >>
    ELSE IF IsPrefix(old, s) THEN Remove(SubSeq(s, Len(old) + 1, Len(s)), old)
    ELSE <<Head(s)>> \o Remove(Tail(s), old)

\* s.split('/')[-1]
RECURSIVE LastPart(_)
LastPart(s) ==
    IF s = << >> \/ s[Len(s)] = "/" THEN << >>
    ELSE LastPart(SubSeq(s, 1, Len(s) - 1)) \o <<s[Len(s)]>>

\* LinkLocalizer._url_to_filename(url)
UrlToFilename(url) ==
    LET path == Strip(UrlPath(url)) IN
    IF path = << >> \/ path = <<SB>> THEN RootFile
    ELSE IF IsPrefix(<<SB, "/">>, path) /\ Remove(path, <<SB, "/">>) # << >>
         THEN Remove(path, <<SB, "/">>) \o <<".html">>
         ELSE LastPart(path) \o <<".html">>

\* HeaderInfoAdder._url_to_filename(url)
HeaderUrlToFilename(url) ==
    LET path == Strip(UrlPath(url)) IN
    IF path = << >> \/ path = <<SB>> THEN RootFile
    ELSE IF IsPrefix(<<SB, "/">>, path) /\ Remove(path, <<SB, "/">>) # << >>
         THEN Remove(path, <<SB, "/">>) \o <<".html">>
         ELSE LastPart(path) \o <<".html">>

(***************************************************************************)
(* One evaluation of _url_to_filename (SpecUrl).                           *)
(***************************************************************************)
NoUrl == [pc |-> "unused", url |-> << >>, filename |-> << >>, header_filename |-> << >>]

UrlPool == {<<Dom>> \o path : path \in SeqsUpTo({"/", SB, "a"}, MaxPathLen)}

UrlStart ==
    uf \in {[pc |-> "input", url |-> u, filename |-> << >>, header_filename |-> << >>] :
               u \in UrlPool}

ConvertUrl ==
    /\ uf.pc = "input"
    /\ uf' = [uf EXCEPT !.pc = "done", !.filename = UrlToFilename(uf.url),
                        !.header_filename = HeaderUrlToFilename(uf.url)]
    /\ UNCHANGED <<translatorVars, annotatorVars, batch, urls_config, out_files, page, url_mapping, stats, lk, pipelineVars>>

(***************************************************************************)
(* URL Mapper: LinkLocalizer.build_url_mapping.                            *)
(***************************************************************************)
EmptyMapping == [u \in {} |-> << >>]

\* The slash-toggled form of a manifest line, as the loop registers it.
SlashVariant(line) ==
    IF line # << >> /\ line[Len(line)] = "/" THEN RStrip(line) ELSE line \o <<"/">>

\* The body of the loop over the lines of the manifest, for one line.
MapLine(line, existing_files, mapping) ==
    IF line = << >> \/ Head(line) = "#" THEN mapping
    ELSE LET local_filename == UrlToFilename(line) IN
         IF local_filename \in existing_files
         THEN (SlashVariant(line) :> local_filename)
              @@ (line :> local_filename) @@ mapping
         ELSE mapping

\* The loop over the first n lines.
RECURSIVE MapLines(_, _, _, _)
MapLines(lines, n, existing_files, mapping) ==
    IF n = 0 THEN mapping
    ELSE MapLine(lines[n], existing_files, MapLines(lines, n - 1, existing_files, mapping))

\* The special case of the home page.
MapRoot(existing_files, mapping) ==
    IF RootFile \in existing_files
    THEN (base_domain \o <<"/">> :> RootFile) @@ (base_domain :> RootFile) @@ mapping
    ELSE mapping

\* (mutant) the mapping of the previous build is kept instead of cleared.
BuildMapping_NoClear(lines, existing_files, old, fail) ==
    IF fail.at = "none"
    THEN MapRoot(existing_files, MapLines(lines, Len(lines), existing_files, old))
    ELSE MapLines(lines, fail.n, existing_files, old)

\* (mutant) only the line itself is registered, not its slash variant.
BuildMapping_NoVariant(lines, existing_files, old, fail) ==
    LET exact == {i \in 1..(IF fail.at = "none" THEN Len(lines) ELSE fail.n) :
                     /\ lines[i] # << >>
                     /\ Head(lines[i]) # "#"
                     /\ UrlToFilename(lines[i]) \in existing_files}
        m == [u \in {lines[i] : i \in exact} |-> UrlToFilename(u)]
    IN  IF fail.at = "none" THEN MapRoot(existing_files, m) ELSE m

\* self.url_mapping after build_url_mapping() on an instance whose mapping was
\* `old`: cleared, then filled from the lines of the manifest and the names
\* of the existing files.  fail.at = "loop": an exception after fail.n lines.
BuildMapping(lines, existing_files, old, fail) ==
    IF fail.at = "none"
    THEN MapRoot(existing_files, MapLines(lines, Len(lines), existing_files, EmptyMapping))
    ELSE MapLines(lines, fail.n, existing_files, EmptyMapping)

FilePool == {RootFile, <<"a", ".html">>, <<"b", ".html">>}

\* Lines of a manifest: blank, comment, the home page with and without
\* slash, pages with no, one and two trailing slashes, a page two levels
\* down, a URL of another site.
LinePool ==
    {<< >>,
     <<"#", "a">>,
     <<Dom, "/", SB>>,
     <<Dom, "/", SB, "/">>,
     <<Dom, "/", SB, "/", "a">>,
     <<Dom, "/", SB, "/", "a", "/">>,
     <<Dom, "/", SB, "/", "b", "/", "/">>,
     <<Dom, "/", SB, "/", "a", "/", "b">>,
     <<Other, "/", "b">>}

NewStats == [files_processed |-> 0, files_modified |-> 0, links_converted |-> 0,
             links_skipped |-> 0]

\* What the last call left: which call it was, the existing_files and the
\* result of build_url_mapping, the page as process_html_file read it, the
\* converted_count and the links_skipped before the conversion.
NoCall == [op |-> "none", ok |-> TRUE, existing_files |-> {}, had_stale |-> FALSE,
           page0 |-> << >>, mapping0 |-> EmptyMapping,
           converted_content |-> << >>, converted_count |-> 0, skipped0 |-> 0]

MapStart ==
    /\ uf = NoUrl
    /\ urls_config \in SeqsUpTo(LinePool, MaxManifest)
    /\ out_files \in SUBSET FilePool
    /\ page = << >>
    /\ url_mapping = EmptyMapping
    /\ stats = NewStats
    /\ lk = NoCall

\* build_url_mapping()
BuildUrlMapping ==
    /\ \E fail \in {NoFail} \cup {LoopFail(j) : j \in 0..Len(urls_config)} :
          /\ url_mapping' = BuildMapping(urls_config, out_files, url_mapping, fail)
          /\ lk' = [NoCall EXCEPT !.op = "build", !.ok = (fail.at = "none"),
                                  !.existing_files = out_files,
                                  !.had_stale = \E u \in DOMAIN url_mapping :
                                                   url_mapping[u] \notin out_files]
    /\ UNCHANGED <<translatorVars, annotatorVars, batch, uf, urls_config, out_files, page, stats, pipelineVars>>

\* A file of the output directory is deleted, or one appears.
DeleteFile ==
    /\ \E f \in out_files : out_files' = out_files \ {f}
    /\ UNCHANGED <<translatorVars, annotatorVars, batch, uf, urls_config, page, url_mapping, stats, lk, pipelineVars>>

CreateFile ==
    /\ \E f \in FilePool \ out_files : out_files' = out_files \cup {f}
    /\ UNCHANGED <<translatorVars, annotatorVars, batch, uf, urls_config, page, url_mapping, stats, lk, pipelineVars>>


(***************************************************************************)
(* Link Rewriter: LinkLocalizer._is_local_link, _convert_links_in_html and  *)
(* process_html_file.  A page is the sequence of its elements that carry an *)
(* href or src attribute, each [tag, attr, value].                          *)
(***************************************************************************)
\* _is_local_link(url)
IsLocalLink(url) ==
    /\ url # << >>
    /\ Head(url) # "#"
    /\ Head(url) # "mailto:"
    /\ IsPrefix(base_domain, url)

\* (mutant) a resolved href is counted but the attribute is not rewritten.
ConvertTag_KeepHref(t, mapping) ==
    IF t.attr = "href" /\ IsLocalLink(t.value)
    THEN IF t.value \in DOMAIN mapping \/ RStrip(t.value) \in DOMAIN mapping
         THEN [tag |-> t, converted |-> 1, skipped |-> 0]
         ELSE [tag |-> t, converted |-> 0, skipped |-> 1]
    ELSE [tag |-> t, converted |-> 0, skipped |-> 0]

\* (mutant) only the verbatim value is looked up.
ConvertTag_VerbatimOnly(t, mapping) ==
    IF t.attr = "href" /\ IsLocalLink(t.value)
    THEN IF t.value \in DOMAIN mapping
         THEN [tag |-> [t EXCEPT !.value = mapping[t.value]], converted |-> 1, skipped |-> 0]
         ELSE [tag |-> t, converted |-> 0, skipped |-> 1]
    ELSE [tag |-> t, converted |-> 0, skipped |-> 0]

\* The body of the loop over find_all(attrs={'href': True}) for one element;
\* elements with src are looked at by the second loop and left alone.
ConvertTag(t, mapping) ==
    IF t.attr = "href" /\ IsLocalLink(t.value)
    THEN LET normalized_url == RStrip(t.value) IN
         IF t.value \in DOMAIN mapping
         THEN [tag |-> [t EXCEPT !.value = mapping[t.value]], converted |-> 1, skipped |-> 0]
         ELSE IF normalized_url \in DOMAIN mapping
         THEN [tag |-> [t EXCEPT !.value = mapping[normalized_url]],
               converted |-> 1, skipped |-> 0]
         ELSE [tag |-> t, converted |-> 0, skipped |-> 1]
    ELSE [tag |-> t, converted |-> 0, skipped |-> 0]

RECURSIVE SumOf(_)
SumOf(ns) == IF ns = << >> THEN 0 ELSE Head(ns) + SumOf(Tail(ns))

\* (mutant) the links are converted but converted_count stays 0.
ConvertLinksInHtml_CountZero(html_content, mapping) ==
    LET r == [i \in DOMAIN html_content |-> ConvertTag(html_content[i], mapping)] IN
    [content |-> [i \in DOMAIN r |-> r[i].tag],
     converted_count |-> 0,
     skipped |-> SumOf([i \in DOMAIN r |-> r[i].skipped])]

\* _convert_links_in_html(html_content): the converted text, converted_count,
\* and the number of links it adds to stats['links_skipped'].
ConvertLinksInHtml(html_content, mapping) ==
    LET r == [i \in DOMAIN html_content |-> ConvertTag(html_content[i], mapping)] IN
    [content |-> [i \in DOMAIN r |-> r[i].tag],
     converted_count |-> SumOf([i \in DOMAIN r |-> r[i].converted]),
     skipped |-> SumOf([i \in DOMAIN r |-> r[i].skipped])]

Href(tag, value) == [tag |-> tag, attr |-> "href", value |-> value]
Src(tag, value) == [tag |-> tag, attr |-> "src", value |-> value]

\* The elements of a page: anchors to pages of the site (plain, with two
\* trailing slashes, with one, unknown to every manifest), to a fragment, a
\* mail address, another site and a local file; a <link> and an <img> of the
\* site.
LinkTokens ==
    {Href("a", <<Dom, "/", SB, "/", "a">>),
     Href("a", <<Dom, "/", SB, "/", "a", "/", "/">>),
     Href("a", <<Dom, "/", SB, "/", "b", "/">>),
     Href("a", <<Dom, "/", SB, "/", "c">>),
     Href("a", <<"#", "a">>),
     Href("a", <<"mailto:", "a">>),
     Href("a", <<Other, "/", "a">>),
     Href("a", <<"a", ".html">>),
     Href("link", <<Dom, "/", SB, "/", "a">>),
     Src("img", <<Dom, "/", SB, "/", "a">>)}

\* The manifest of the link specification: home page and two pages.
LinkManifest ==
    <<<<Dom, "/", SB, "/">>, <<Dom, "/", SB, "/", "a">>, <<Dom, "/", SB, "/", "b", "/">>>>

LinksStart ==
    /\ uf = NoUrl
    /\ urls_config = LinkManifest
    /\ out_files \in SUBSET FilePool
    /\ page \in SeqsUpTo(LinkTokens, MaxLinks)
    /\ url_mapping = EmptyMapping
    /\ stats = NewStats
    /\ lk = NoCall

\* process_html_file(file_path) on the page: read, convert, write when a link
\* was converted, count.
ProcessHtmlFile ==
    /\ stats.files_processed < MaxRuns
    /\ LET r == ConvertLinksInHtml(page, url_mapping) IN
       /\ page' = IF r.converted_count > 0 THEN r.content ELSE page
       /\ stats' = [files_processed |-> stats.files_processed + 1,
                    files_modified |-> stats.files_modified
                                       + (IF r.converted_count > 0 THEN 1 ELSE 0),
                    links_converted |-> stats.links_converted
                                        + (IF r.converted_count > 0 THEN r.converted_count ELSE 0),
                    links_skipped |-> stats.links_skipped + r.skipped]
       /\ lk' = [NoCall EXCEPT !.op = "convert", !.page0 = page, !.mapping0 = url_mapping,
                               !.converted_content = r.content,
                               !.converted_count = r.converted_count,
                               !.skipped0 = stats.links_skipped]
    /\ UNCHANGED <<translatorVars, annotatorVars, batch, uf, urls_config, out_files, url_mapping, pipelineVars>>

(***************************************************************************)
(* Provenance Annotator: HeaderInfoAdder.build_file_url_mapping,            *)
(* create_header_html, find_insertion_point and process_html_file.  The     *)
(* page is the token sequence of the Link Rewriter with, in addition, the   *)
(* opening and closing tags of <div> elements (value: the class list), the  *)
(* <d-title> element and text nodes.                                        *)
(***************************************************************************)
OpenDiv(classes) == [tag |-> "div", attr |-> "class", value |-> classes]
CloseDiv == [tag |-> "/div", attr |-> "none", value |-> << >>]
DTitle == [tag |-> "d-title", attr |-> "none", value |-> << >>]
TextNode(pieces) == [tag |-> "#text", attr |-> "none", value |-> pieces]

Marker == "translation-info"
wechat_qr_url == "https://wechat-account-1251781786.cos.ap-guangzhou.myqcloud.com"

EmptyFileMapping == [f \in {} |-> << >>]

\* The loop of build_file_url_mapping over the first n lines of the manifest:
\* file_url_mapping[local_filename] = line, for existing files only; a later
\* line of the same file name replaces the earlier one.
RECURSIVE FileMapLines(_, _, _)
FileMapLines(lines, n, existing_files) ==
    IF n = 0 THEN EmptyFileMapping
    ELSE LET m == FileMapLines(lines, n - 1, existing_files)
             line == Strip(lines[n])
             local_filename == HeaderUrlToFilename(line)
         IN  IF line = << >> \/ Head(line) = "#" THEN m
             ELSE IF local_filename \in existing_files
             THEN [f \in DOMAIN m \cup {local_filename} |->
                      IF f = local_filename THEN line ELSE m[f]]
             ELSE m

\* self.file_url_mapping after build_file_url_mapping(): cleared, then
\* filled; fail.at = "loop": an exception after fail.n lines.
BuildFileMapping(lines, existing_files, fail) ==
    IF fail.at = "none"
    THEN FileMapLines(lines, Len(lines), existing_files)
    ELSE FileMapLines(lines, fail.n, existing_files)

\* create_header_html(original_url): the translation-info block with the
\* link to the original and the image of the translator.
CreateHeaderHtml(original_url) ==
    <<OpenDiv(<<Marker, "base-grid">>), Href("a", original_url),
      Src("img", <<wechat_qr_url>>), CloseDiv>>

\* 'translation-info' in html_content
HasMarker(html_content) ==
    \E i \in DOMAIN html_content :
        \E k \in DOMAIN html_content[i].value : html_content[i].value[k] = Marker

\* 'post' in x and 'distill' in x, for a string x made of the class words
\* ws: substring tests on the words.
HasPost(w) == w \in {"post", "posts", "post-distill"}
HasDistill(w) == w \in {"distill", "distilled", "post-distill"}
PostAndDistillIn(ws) ==
    /\ \E i \in DOMAIN ws : HasPost(ws[i])
    /\ \E i \in DOMAIN ws : HasDistill(ws[i])

\* soup.find(...): of the positions S of the elements that pass, the first
\* in document order; 0 when there is none.
FirstIndex(S) ==
    IF S = {} THEN 0 ELSE CHOOSE i \in S : \A j \in S : i <= j

\* class_='post distill': the class attribute as one string is 'post distill'
\* (no single class word equals it).
IsPostDistill(t) == t.tag = "div" /\ t.value = <<"post", "distill">>

\* class_=lambda x: x and 'post' in x and 'distill' in x: the function is
\* given each class word and then the whole class attribute as one string.
IsPostDiv(t) ==
    /\ t.tag = "div"
    /\ t.value # << >>
    /\ \/ \E i \in DOMAIN t.value : HasPost(t.value[i]) /\ HasDistill(t.value[i])
       \/ PostAndDistillIn(t.value)

\* The closing tag of the <div> opened at j (the end of the text when it is
\* never closed).
DivClose(soup, j) ==
    LET Count(a, b, tag) == Cardinality({k \in a..b : soup[k].tag = tag})
        S == {k \in (j + 1)..Len(soup) :
                 /\ soup[k].tag = "/div"
                 /\ Count(j + 1, k - 1, "div") = Count(j + 1, k - 1, "/div")}
    IN  IF S = {} THEN Len(soup) + 1 ELSE CHOOSE k \in S : \A l \in S : k <= l

\* tag.parent: the innermost <div> around position i, 0 for the soup itself.
ParentOf(soup, i) ==
    LET S == {j \in 1..(i - 1) : soup[j].tag = "div" /\ DivClose(soup, j) > i} IN
    IF S = {} THEN 0 ELSE CHOOSE j \in S : \A l \in S : l <= j

NoPoint == [found |-> FALSE, at |-> 0]

\* find_insertion_point(soup): the position of the opening tag of the
\* container (0: the soup itself), or nothing.
FindInsertionPoint(soup) ==
    LET post_distill == FirstIndex({i \in DOMAIN soup : IsPostDistill(soup[i])})
        post_div == FirstIndex({i \in DOMAIN soup : IsPostDiv(soup[i])})
        d_title == FirstIndex({i \in DOMAIN soup : soup[i].tag = "d-title"})
    IN  IF post_distill # 0 THEN [found |-> TRUE, at |-> post_distill]
        ELSE IF post_div # 0 THEN [found |-> TRUE, at |-> post_div]
        ELSE IF d_title # 0 THEN [found |-> TRUE, at |-> ParentOf(soup, d_title)]
        ELSE NoPoint

\* insertion_point.insert(0, header_soup) / insertion_point.append(header_soup)
InsertFirstChild(soup, at, header_soup) ==
    SubSeq(soup, 1, at) \o header_soup \o SubSeq(soup, at + 1, Len(soup))

NewHeaderStats == [files_processed |-> 0, files_modified |-> 0, headers_added |-> 0,
                   files_skipped |-> 0]

\* What the last HeaderInfoAdder call left: which call, the file and its
\* content as read and as left, the mapping, the insertion point, how the call ended;
\* runs counts the process_html_file calls.
NoHeaderCall == [op |-> "none", filename |-> << >>, page0 |-> << >>, content |-> << >>,
                 mapping0 |-> EmptyFileMapping, point |-> NoPoint,
                 outcome |-> "none", ret |-> TRUE, stats0 |-> NewHeaderStats, runs |-> 0]

\* (mutant) the header is inserted without looking for the marker.
ProcessHeader_NoMarkerCheck(filename, html_content, mapping, raises) ==
    IF filename \notin DOMAIN mapping
    THEN [content |-> html_content, outcome |-> "no_url", ret |-> TRUE, point |-> NoPoint]
    ELSE LET insertion_point == FindInsertionPoint(html_content) IN
         IF ~insertion_point.found
         THEN [content |-> html_content, outcome |-> "no_point", ret |-> FALSE,
               point |-> NoPoint]
         ELSE [content |-> InsertFirstChild(html_content, insertion_point.at,
                                            CreateHeaderHtml(mapping[filename])),
               outcome |-> "added", ret |-> TRUE, point |-> insertion_point]

\* process_html_file(file_path) of HeaderInfoAdder: the content of the file
\* afterwards, how the call ended and what it returns.  raises: reading or
\* parsing the file raises.
ProcessHeader(filename, html_content, mapping, raises) ==
    IF filename \notin DOMAIN mapping
    THEN [content |-> html_content, outcome |-> "no_url", ret |-> TRUE, point |-> NoPoint]
    ELSE IF raises
    THEN [content |-> html_content, outcome |-> "raised", ret |-> FALSE, point |-> NoPoint]
    ELSE IF HasMarker(html_content)
    THEN [content |-> html_content, outcome |-> "has_header", ret |-> TRUE,
          point |-> NoPoint]
    ELSE LET insertion_point == FindInsertionPoint(html_content) IN
         IF ~insertion_point.found
         THEN [content |-> html_content, outcome |-> "no_point", ret |-> FALSE,
               point |-> NoPoint]
         ELSE [content |-> InsertFirstChild(html_content, insertion_point.at,
                                            CreateHeaderHtml(mapping[filename])),
               outcome |-> "added", ret |-> TRUE, point |-> insertion_point]

\* The counters of HeaderInfoAdder.stats after a process_html_file call.
HeaderStatsAfter(st, outcome) ==
    IF outcome \in {"no_url", "has_header", "no_point"}
    THEN [st EXCEPT !.files_skipped = @ + 1]
    ELSE IF outcome = "added"
    THEN [st EXCEPT !.files_processed = @ + 1, !.files_modified = @ + 1,
                    !.headers_added = @ + 1]
    ELSE st

\* Pages of the provenance specification.
AnnotDocs ==
    {<<OpenDiv(<<"post", "distill">>), Href("a", <<Dom, "/", SB, "/", "a">>), CloseDiv>>,
     <<OpenDiv(<<"post", "distill">>), CloseDiv>>,
     <<OpenDiv(<<"distill", "post">>), TextNode(<<"x">>), CloseDiv,
       OpenDiv(<<"post", "distill">>), CloseDiv>>,
     <<OpenDiv(<<"x", "distill", "post">>), CloseDiv, OpenDiv(<< >>), DTitle, CloseDiv>>,
     <<OpenDiv(<<"x">>), OpenDiv(<< >>), DTitle, CloseDiv, CloseDiv>>,
     <<DTitle, TextNode(<<"x">>)>>,
     <<OpenDiv(<<"x">>), Href("a", <<Dom, "/", SB, "/", "b", "/">>), CloseDiv>>,
     <<OpenDiv(<<"posts", "distilled">>), CloseDiv, OpenDiv(<<"x">>), DTitle, CloseDiv>>,
     <<OpenDiv(<<"post-distill">>), CloseDiv>>,
     <<OpenDiv(<<"post", "distill">>), TextNode(<<Marker>>), CloseDiv>>}

\* Manifests of the provenance specification.
AnnotManifests ==
    {<< >>,
     <<<<Dom, "/", SB, "/", "a">>>>,
     <<<<Dom, "/", SB, "/", "a">>, <<Dom, "/", SB, "/", "b", "/">>>>,
     <<<<"#", "a">>, <<Dom, "/", SB, "/", "a", "/", "b">>>>}

PageNames == {<<"a", ".html">>}
PageFiles == {<<"a", ".html">>, <<"b", ".html">>}

\* Pages, manifests of the batch specification.
BatchDocs ==
    {<<OpenDiv(<<"post", "distill">>), Href("a", <<Dom, "/", SB, "/", "a">>), CloseDiv>>,
     <<OpenDiv(<<"x">>), Href("a", <<Dom, "/", SB, "/", "b", "/">>), CloseDiv>>,
     <<OpenDiv(<<"post", "distill">>), TextNode(<<Marker>>), CloseDiv>>}

BatchManifests ==
    {<< >>,
     <<<<Dom, "/", SB, "/", "b", "/">>>>,
     <<<<Dom, "/", SB, "/", "a">>, <<Dom, "/", SB, "/", "b", "/">>>>}

BatchStart ==
    /\ uf = NoUrl
    /\ urls_config \in BatchManifests
    /\ page_name \in PageNames
    /\ out_files \in {S \in SUBSET PageFiles : page_name \in S}
    /\ page \in BatchDocs
    /\ url_mapping = EmptyMapping
    /\ stats = NewStats
    /\ lk = NoCall
    /\ file_url_mapping = EmptyFileMapping
    /\ hstats = NewHeaderStats
    /\ hd = NoHeaderCall

PostStart ==
    /\ uf = NoUrl
    /\ urls_config \in AnnotManifests
    /\ page_name \in PageNames
    /\ out_files \in {S \in SUBSET PageFiles : page_name \in S}
    /\ page \in AnnotDocs
    /\ url_mapping = EmptyMapping
    /\ stats = NewStats
    /\ lk = NoCall
    /\ file_url_mapping = EmptyFileMapping
    /\ hstats = NewHeaderStats
    /\ hd = NoHeaderCall

\* build_file_url_mapping()
BuildFileUrlMapping ==
    /\ \E fail \in {NoFail} \cup {LoopFail(j) : j \in 0..Len(urls_config)} :
          /\ file_url_mapping' = BuildFileMapping(urls_config, out_files, fail)
          /\ hd' = [NoHeaderCall EXCEPT !.op = "build", !.ret = (fail.at = "none"),
                                        !.runs = hd.runs]
    /\ UNCHANGED <<translatorVars, mapperVars, page_name, hstats, batch, pipelineVars>>

\* process_html_file(file_path) of HeaderInfoAdder on the page.
AnnotateFile ==
    /\ hd.runs < MaxRuns
    /\ \E raises \in BOOLEAN :
          LET r == ProcessHeader(page_name, page, file_url_mapping, raises) IN
          /\ page' = r.content
          /\ hstats' = HeaderStatsAfter(hstats, r.outcome)
          /\ hd' = [op |-> "annotate", filename |-> page_name, page0 |-> page,
                    content |-> r.content,
                    mapping0 |-> file_url_mapping, point |-> r.point,
                    outcome |-> r.outcome, ret |-> r.ret, stats0 |-> hstats,
                    runs |-> hd.runs + 1]
    /\ UNCHANGED <<translatorVars, uf, urls_config, out_files, url_mapping, stats, lk,
                   page_name, file_url_mapping, batch, pipelineVars>>

(***************************************************************************)
(* Batch steps: TranslationPipeline.step2_translate_pages,                  *)
(* LinkLocalizer.process_all_files and HeaderInfoAdder.process_all_files.   *)
(* Each lists the *.html files of its directory and loops over them.  The   *)
(* file page_name has its content in `page`; the content of the other files *)
(* is not modelled and processing them ends in any way the code allows.     *)
(***************************************************************************)
\* list(dir.glob("*.html")): the files in the order the file system gives.
Globs(files) ==
    {q \in [1..Cardinality(files) -> files] :
        \A i, j \in DOMAIN q : i # j => q[i] # q[j]}

\* The running batch step: its list of files, the index of the next file,
\* the files whose processing was started and what each call returned, the
\* counters of step2_translate_pages, what the step returned.
\* For the translation step also, for each call of translate_html_file:
\* whether the target existed before, whether the translation capability
\* answers the calls for the file, whether it was invoked, whether the
\* target was written.
NoBatch == [step |-> "none", pc |-> "idle", html_files |-> << >>, i |-> 1,
            attempted |-> << >>, rets |-> << >>, force_translate |-> FALSE,
            success_count |-> 0, failed_count |-> 0, skipped_count |-> 0,
            returned |-> "none", calls |-> << >>]

StartBatch(step, html_files) ==
    [NoBatch EXCEPT !.step = step, !.html_files = html_files,
                    !.pc = IF html_files = << >> THEN "done" ELSE "loop"]

\* (mutant) the loop ends at the first file whose processing fails.
BatchAfterItem_StopOnFailure(b, ret) ==
    [b EXCEPT !.attempted = Append(@, b.html_files[b.i]),
              !.rets = Append(@, ret),
              !.i = @ + 1,
              !.pc = IF b.i = Len(b.html_files) \/ ret \in {"False", "None", "raised"}
                     THEN "done" ELSE "loop"]

\* One pass of `for html_file in html_files` whose body ended with ret: the
\* loop goes on with the next file and ends after the last.
BatchAfterItem(b, ret) ==
    [b EXCEPT !.attempted = Append(@, b.html_files[b.i]),
              !.rets = Append(@, ret),
              !.i = @ + 1,
              !.pc = IF b.i = Len(b.html_files) THEN "done" ELSE "loop"]

\* The parameters of translate_html after self, and the arguments of the call
\* in translate_html_file.
TranslateHtmlParams == <<"html_content", "context">>
TranslateHtmlFileArgs == <<"html_content", "context", "force_translate">>

\* (mutant) the existing target is not looked at.
TranslateHtmlFile_IgnoreExisting(input_file, force_translate, existing, capable) ==
    [ret |-> "None", invoked |-> FALSE, written |-> FALSE]

\* translate_html_file(input_file, force_translate): the path of the target
\* when it exists and translation is not forced.  Otherwise translate_html is
\* called; a call with more arguments than parameters raises TypeError, which
\* the except clause turns into None; else the path of the saved file (the
\* same path as the target's) when the capability answers and None when not.
TranslateHtmlFile(input_file, force_translate, existing, capable) ==
    IF input_file \in existing /\ ~force_translate
    THEN [ret |-> "target_file", invoked |-> FALSE, written |-> FALSE]
    ELSE IF Len(TranslateHtmlFileArgs) > Len(TranslateHtmlParams)
    THEN [ret |-> "None", invoked |-> FALSE, written |-> FALSE]
    ELSE IF capable
    THEN [ret |-> "target_file", invoked |-> TRUE, written |-> TRUE]
    ELSE [ret |-> "None", invoked |-> TRUE, written |-> FALSE]

\* step2_translate_pages(force_translate), up to the loop.
TranslateBatchStart ==
    /\ batch.pc \in {"idle", "done"}
    /\ \E origin \in SUBSET PageFiles, force_translate \in BOOLEAN :
          \E html_files \in Globs(origin) :
              batch' = [StartBatch("translate", html_files) EXCEPT
                           !.force_translate = force_translate,
                           !.returned = IF html_files = << >> THEN "False" ELSE "none"]
    /\ UNCHANGED <<translatorVars, mapperVars, annotatorVars, pipelineVars>>

\* One pass of the loop of step2_translate_pages; after the last file the
\* counters go to self.stats and the step returns.
TranslateBatchItem ==
    /\ batch.step = "translate" /\ batch.pc = "loop"
    /\ \E raises \in BOOLEAN : \E capable \in (IF raises THEN {FALSE} ELSE BOOLEAN) :
          LET html_file == batch.html_files[batch.i]
              call == TranslateHtmlFile(html_file, batch.force_translate, out_files, capable)
              result == IF raises THEN "raised" ELSE call.ret
              exists == html_file \in out_files \/ (~raises /\ call.written)
              skipped == result = "target_file" /\ exists /\ ~batch.force_translate
              b == [BatchAfterItem(batch, result) EXCEPT
                       !.success_count = @ + (IF result = "target_file" /\ ~skipped
                                              THEN 1 ELSE 0),
                       !.skipped_count = @ + (IF skipped THEN 1 ELSE 0),
                       !.failed_count = @ + (IF result \in {"None", "raised"}
                                             THEN 1 ELSE 0),
                       !.calls = Append(@, [existed |-> html_file \in out_files,
                                            capable |-> capable,
                                            invoked |-> ~raises /\ call.invoked,
                                            written |-> ~raises /\ call.written])]
          IN  /\ batch' = [b EXCEPT !.returned =
                              IF b.pc # "done" THEN "none"
                              ELSE IF b.success_count + b.skipped_count > 0 THEN "True"
                              ELSE "False"]
              /\ out_files' = IF ~raises /\ call.written THEN out_files \cup {html_file}
                              ELSE out_files
    /\ UNCHANGED <<translatorVars, uf, urls_config, page, url_mapping, stats, lk,
                   annotatorVars, pipelineVars>>

\* process_all_files() of LinkLocalizer, up to the loop: the counters are
\* reset, the mapping is built, the files are listed.
LocalizeBatchStart ==
    /\ batch.pc \in {"idle", "done"}
    /\ \E fail \in {NoFail} \cup {LoopFail(j) : j \in 0..Len(urls_config)} :
          LET m == BuildMapping(urls_config, out_files, url_mapping, fail) IN
          /\ url_mapping' = m
          /\ stats' = NewStats
          /\ \E html_files \in Globs(out_files) :
                batch' = [StartBatch("localize",
                                     IF fail.at # "none" \/ m = EmptyMapping
                                     THEN << >> ELSE html_files)
                          EXCEPT !.returned = IF fail.at # "none" \/ m = EmptyMapping
                                                 \/ html_files = << >>
                                              THEN "stats" ELSE "none"]
    /\ lk' = NoCall
    /\ UNCHANGED <<translatorVars, annotatorVars, uf, urls_config, out_files, page, pipelineVars>>

\* One pass of the loop of LinkLocalizer.process_all_files.
LocalizeBatchItem ==
    /\ batch.step = "localize" /\ batch.pc = "loop"
    /\ \E raises \in BOOLEAN, other \in 0..1 :
          LET html_file == batch.html_files[batch.i]
              r == ConvertLinksInHtml(page, url_mapping)
              converted_count == IF html_file = page_name THEN r.converted_count ELSE other
              b == BatchAfterItem(batch, IF raises THEN "False" ELSE "True")
          IN  /\ batch' = [b EXCEPT !.returned = IF b.pc = "done" THEN "stats" ELSE "none"]
              /\ page' = IF ~raises /\ html_file = page_name /\ converted_count > 0
                         THEN r.content ELSE page
              /\ stats' = IF raises THEN stats
                          ELSE [files_processed |-> stats.files_processed + 1,
                                files_modified |-> stats.files_modified
                                    + (IF converted_count > 0 THEN 1 ELSE 0),
                                links_converted |-> stats.links_converted + converted_count,
                                links_skipped |-> stats.links_skipped
                                    + (IF html_file = page_name THEN r.skipped ELSE 0)]
    /\ UNCHANGED <<translatorVars, annotatorVars, uf, urls_config, out_files, url_mapping,
                   lk, pipelineVars>>

\* process_all_files() of HeaderInfoAdder, up to the loop.
HeadersBatchStart ==
    /\ batch.pc \in {"idle", "done"}
    /\ \E fail \in {NoFail} \cup {LoopFail(j) : j \in 0..Len(urls_config)} :
          LET m == BuildFileMapping(urls_config, out_files, fail) IN
          /\ file_url_mapping' = m
          /\ hstats' = NewHeaderStats
          /\ \E html_files \in Globs(out_files) :
                batch' = [StartBatch("headers",
                                     IF fail.at # "none" \/ m = EmptyFileMapping
                                     THEN << >> ELSE html_files)
                          EXCEPT !.returned = IF fail.at # "none" \/ m = EmptyFileMapping
                                                 \/ html_files = << >>
                                              THEN "stats" ELSE "none"]
    /\ hd' = [NoHeaderCall EXCEPT !.op = "batch"]
    /\ UNCHANGED <<translatorVars, mapperVars, page_name, pipelineVars>>

\* One pass of the loop of HeaderInfoAdder.process_all_files.
HeadersBatchItem ==
    /\ batch.step = "headers" /\ batch.pc = "loop"
    /\ \E raises \in BOOLEAN, other \in {"has_header", "no_point", "added"} :
          LET html_file == batch.html_files[batch.i]
              r == ProcessHeader(html_file, page, file_url_mapping, raises)
              outcome == IF html_file = page_name \/ r.outcome \in {"no_url", "raised"}
                         THEN r.outcome ELSE other
              ret == outcome \in {"no_url", "has_header", "added"}
              b == BatchAfterItem(batch, IF ret THEN "True" ELSE "False")
          IN  /\ batch' = [b EXCEPT !.returned = IF b.pc = "done" THEN "stats" ELSE "none"]
              /\ page' = IF html_file = page_name THEN r.content ELSE page
              /\ hstats' = HeaderStatsAfter(hstats, outcome)
              /\ hd' = IF html_file = page_name
                       THEN [op |-> "annotate", filename |-> page_name, page0 |-> page,
                             content |-> r.content,
                             mapping0 |-> file_url_mapping, point |-> r.point,
                             outcome |-> r.outcome, ret |-> r.ret, stats0 |-> hstats,
                             runs |-> hd.runs + 1]
                       ELSE hd
    /\ UNCHANGED <<translatorVars, uf, urls_config, out_files, url_mapping, stats, lk,
                   page_name, file_url_mapping, pipelineVars>>

(***************************************************************************)
(* HTMLTranslator.extract_html_parts on a whole text.  A text is what the  *)
(* parser makes of it: the top-level doctype item (NoItem when there is     *)
(* none; its str() is the text inside the declaration), the attributes of   *)
(* the <html> tag (NoTag when there is no such tag), whether there is a     *)
(* <head> and a <body> (Absent when missing), the <title> text and the      *)
(* content of <meta name="description"> (Absent when missing; they stand in *)
(* the head when there is one and elsewhere under the root when there is    *)
(* none); rejected: the text holds a marked section such as <![foo[x]]> for *)
(* which html.parser raises.                                                *)
(*                                                                         *)
(* Strings are sequences of pieces as for URLs; a text that is split into   *)
(* lines is a sequence of such strings.                                     *)
(***************************************************************************)
DefaultDoctype == <<"<!DOCTYPE", " ", "html", ">">>
NoItem == <<Absent>>
NoTag == <<NoItem>>
Q == "\""

\* One attribute of the root tag as it is formatted, k="v".
LangAttr(v) == <<"lang=", Q, v, Q>>
XmlLangAttr(v) == <<"xml:", "lang=", Q, v, Q>>
ClassAttr == <<"class=", Q, "x", Q>>

RootAttrs ==
    {NoTag, << >>, <<LangAttr("en")>>, <<XmlLangAttr("en")>>, <<ClassAttr>>,
     <<ClassAttr, LangAttr("en")>>}

HtmlTexts ==
    [doctype : {NoItem, <<"html">>, <<"html", " ", "PUBLIC">>},
     html_attrs : RootAttrs,
     head : {Absent, "head"},
     title : {Absent, "Title"},
     description : {Absent, "Desc"},
     body : {Absent, "body"},
     rejected : BOOLEAN]

EmptyHead == <<"<head>", "</head>">>
EmptyBody == <<"<body>", "</body>">>
TitleOpen == "<title>"
DescOpen == "<meta name=\"description\" content=\""

\* str() of a head element with the given title and description elements.
HeadText(title, description) ==
    <<"<head>">>
    \o (IF title = Absent THEN << >> ELSE <<TitleOpen, title, "</title>">>)
    \o (IF description = Absent THEN << >> ELSE <<DescOpen, description, "\"/>">>)
    \o <<"</head>">>

BodyText(body) == <<"<body>", body, "</body>">>

\* " ".join(attrs_list)
RECURSIVE JoinAttrs(_)
JoinAttrs(attrs_list) ==
    IF attrs_list = << >> THEN << >>
    ELSE IF Len(attrs_list) = 1 THEN Head(attrs_list)
    ELSE Head(attrs_list) \o <<" ">> \o JoinAttrs(Tail(attrs_list))

NoParts == [raised |-> FALSE, doctype |-> << >>, html_attrs |-> << >>, head_content |-> << >>,
            body_content |-> << >>, original_title |-> "", original_description |-> ""]

\* The loop over soup.contents: the str() of the doctype item when that
\* starts with <!DOCTYPE, the default otherwise.
ExtractDoctype(item) ==
    IF item # NoItem /\ item # << >> /\ Head(item) = "<!DOCTYPE" THEN item
    ELSE DefaultDoctype

\* (mutant) absent parts are passed on as they are instead of the defaults.
ExtractParts_NoDefaults(html_content) ==
    IF html_content.rejected THEN [NoParts EXCEPT !.raised = TRUE]
    ELSE [raised |-> FALSE,
          doctype |-> ExtractDoctype(html_content.doctype),
          html_attrs |-> IF html_content.html_attrs = NoTag THEN NoItem
                         ELSE JoinAttrs(html_content.html_attrs),
          head_content |-> IF html_content.head = Absent THEN NoItem
                           ELSE HeadText(html_content.title, html_content.description),
          body_content |-> IF html_content.body = Absent THEN NoItem
                           ELSE BodyText(html_content.body),
          original_title |-> html_content.title,
          original_description |-> html_content.description]

\* extract_html_parts(html_content): the parts, or the exception of the
\* parser logged and raised again.
ExtractParts(html_content) ==
    IF html_content.rejected THEN [NoParts EXCEPT !.raised = TRUE]
    ELSE [raised |-> FALSE,
          doctype |-> ExtractDoctype(html_content.doctype),
          html_attrs |-> IF html_content.html_attrs \in {NoTag, << >>} THEN << >>
                         ELSE <<" ">> \o JoinAttrs(html_content.html_attrs),
          head_content |-> IF html_content.head = Absent THEN EmptyHead
                           ELSE HeadText(html_content.title, html_content.description),
          body_content |-> IF html_content.body = Absent THEN EmptyBody
                           ELSE BodyText(html_content.body),
          original_title |-> IF html_content.title = Absent THEN ""
                             ELSE html_content.title,
          original_description |-> IF html_content.description = Absent THEN ""
                                   ELSE html_content.description]

(***************************************************************************)
(* HTMLTranslator.reassemble_html and _fix_html_prefix on the text level.  *)
(***************************************************************************)
\* The piece after the first occurrence of `open` in a string, Absent when
\* there is none: the text of the first <title>, the content of the first
\* description element.
After(markup, open) ==
    IF \E i \in 1..(Len(markup) - 1) : markup[i] = open
    THEN markup[(CHOOSE i \in 1..(Len(markup) - 1) :
                    /\ markup[i] = open
                    /\ \A j \in 1..(i - 1) : markup[j] # open) + 1]
    ELSE Absent

HasHeadTag(markup) == markup # << >> /\ Head(markup) = "<head>"

\* reassemble_html, head part: head_content is parsed, the title and the
\* description are set when a translated text is given, the elements being
\* created in the head when missing, and the head element is written out.
UpdatedHead(head_content, translated_title, translated_description) ==
    LET title == After(head_content, TitleOpen)
        desc == After(head_content, DescOpen)
    IN  IF HasHeadTag(head_content)
        THEN HeadText(IF translated_title # "" THEN translated_title ELSE title,
                      IF translated_description # "" THEN translated_description ELSE desc)
        ELSE head_content

\* re.sub(r'lang="[^"]*"', 'lang="zh-CN"', s)
SubLang(s) ==
    [i \in DOMAIN s |->
        IF i >= 3 /\ i < Len(s) /\ s[i - 2] = "lang=" /\ s[i - 1] = Q /\ s[i + 1] = Q
        THEN "zh-CN" ELSE s[i]]

\* reassemble_html, language part.
ForceLang(html_attrs) ==
    IF \E i \in DOMAIN html_attrs : html_attrs[i] = "lang=" THEN SubLang(html_attrs)
    ELSE IF html_attrs # << >> THEN html_attrs \o <<" ">> \o LangAttr("zh-CN")
    ELSE <<" ">> \o LangAttr("zh-CN")

\* Tests of _fix_html_prefix on one stripped line.
LtPieces == {"<!DOCTYPE", "<!doctype", "<html", "<head>", "<body>", "</html>"}
IsBareHtml(line) == line \in {<<"html">>, <<"HTML">>}
StartsWithDoctype(line) == line # << >> /\ Head(line) = "<!DOCTYPE"
StartsWithDoctypeUpper(line) == line # << >> /\ Head(line) \in {"<!DOCTYPE", "<!doctype"}
StartsWithLt(line) == line # << >> /\ Head(line) \in LtPieces

\* _fix_html_prefix(html_content), html_content being split into lines.
FixHtmlPrefix(lines) ==
    LET drop == /\ lines # << >>
                /\ \/ IsBareHtml(lines[1])
                   \/ /\ lines[1] # << >>
                      /\ ~StartsWithDoctype(lines[1])
                      /\ ~StartsWithLt(lines[1])
        fixed_lines == IF drop THEN Tail(lines) ELSE lines
        has_doctype == \E i \in DOMAIN fixed_lines : StartsWithDoctypeUpper(fixed_lines[i])
    IN  IF has_doctype THEN fixed_lines ELSE <<DefaultDoctype>> \o fixed_lines

\* The text assembled by reassemble_html before the repair.
CompleteHtml(parts, translated_body, translated_title, translated_description) ==
    <<IF parts.doctype # << >> THEN parts.doctype ELSE DefaultDoctype,
      <<"<html">> \o ForceLang(parts.html_attrs) \o <<">">>,
      UpdatedHead(parts.head_content, translated_title, translated_description)>>
    \o translated_body
    \o << <<"</html>">> >>

\* reassemble_html(parts, translated_body, translated_title,
\* translated_description) with an empty math_content_store, for which
\* _restore_math_content returns the body as it is.
ReassembleLines(parts, translated_body, translated_title, translated_description) ==
    FixHtmlPrefix(CompleteHtml(parts, translated_body, translated_title,
                               translated_description))

\* The attributes of a root tag, from the text between <html and >.
RECURSIVE SplitAttrs(_, _)
SplitAttrs(s, cur) ==
    IF s = << >> THEN (IF cur = << >> THEN << >> ELSE <<cur>>)
    ELSE IF Head(s) = " "
         THEN (IF cur = << >> THEN << >> ELSE <<cur>>) \o SplitAttrs(Tail(s), << >>)
         ELSE SplitAttrs(Tail(s), Append(cur, Head(s)))

FirstLine(lines, Starts) == lines[CHOOSE i \in DOMAIN lines : i \in Starts /\ \A j \in Starts : i <= j]

\* What the parser makes of a text of lines: the parts of HtmlTexts and, in
\* stray, the lines of text that stand outside every tag.
ParseText(lines) ==
    LET doctypes == {i \in DOMAIN lines : StartsWithDoctypeUpper(lines[i])}
        roots == {i \in DOMAIN lines : lines[i] # << >> /\ Head(lines[i]) = "<html"}
        heads == {i \in DOMAIN lines : HasHeadTag(lines[i])}
        bodies == {i \in DOMAIN lines : lines[i] # << >> /\ Head(lines[i]) = "<body>"}
        all == Flatten(lines)
    IN  [doctype |-> IF doctypes = {} THEN NoItem
                     ELSE LET d == FirstLine(lines, doctypes) IN SubSeq(d, 3, Len(d) - 1),
         html_attrs |-> IF roots = {} THEN NoTag
                        ELSE LET r == FirstLine(lines, roots)
                             IN SplitAttrs(SubSeq(r, 2, Len(r) - 1), << >>),
         head |-> IF heads = {} THEN Absent ELSE "head",
         title |-> After(all, TitleOpen),
         description |-> After(all, DescOpen),
         body |-> IF bodies = {} THEN Absent
                  ELSE LET b == FirstLine(lines, bodies)
                       IN IF Len(b) = 3 THEN b[2] ELSE "",
         stray |-> {i \in DOMAIN lines : lines[i] # << >> /\ ~StartsWithLt(lines[i])},
         rejected |-> FALSE]

\* The value of the lang attribute among the attributes of a root tag.
LangOf(attrs) ==
    IF attrs # NoTag /\ \E i \in DOMAIN attrs : attrs[i][1] = "lang="
    THEN attrs[CHOOSE i \in DOMAIN attrs : attrs[i][1] = "lang="][3]
    ELSE Absent

\* What the translation capability may hand back for a body: the body, or
\* the body after a line of its own.
StrayLines == {<<"html">>, <<"Here", " ", "is", " ", "the", " ", "translation">>}
TranslatedBodies(body_content) ==
    {<<body_content>>} \cup {<<stray, body_content>> : stray \in StrayLines}
TranslatedTitles == {"", "zh:Title"}
TranslatedDescriptions == {"", "zh:Desc"}

NoTranslated == [title |-> "", description |-> "", body |-> << >>]

NoExtract == [pc |-> "unused", html_content |-> << >>, parts |-> NoParts,
              translated |-> NoTranslated, out |-> << >>, again |-> NoParts]

PartsStart ==
    ex \in [pc : {"input"}, html_content : HtmlTexts, parts : {NoParts},
            translated : {NoTranslated}, out : {<< >>}, again : {NoParts}]

Extract ==
    /\ ex.pc = "input"
    /\ ex' = [ex EXCEPT !.pc = "done", !.parts = ExtractParts(ex.html_content)]
    /\ UNCHANGED <<math_content_store, sh, tr, trans_dir, mapperVars, annotatorVars, batch, pipelineVars>>

\* reassemble_html on the parts of the text.
ReassembleParts ==
    /\ ex.pc = "done"
    /\ ~ex.parts.raised
    /\ \E translated_title \in TranslatedTitles,
          translated_description \in TranslatedDescriptions,
          translated_body \in TranslatedBodies(ex.parts.body_content) :
          ex' = [ex EXCEPT !.pc = "reassembled",
                           !.translated = [title |-> translated_title,
                                           description |-> translated_description,
                                           body |-> translated_body],
                           !.out = ReassembleLines(ex.parts, translated_body,
                                                   translated_title,
                                                   translated_description)]
    /\ UNCHANGED <<math_content_store, sh, tr, trans_dir, mapperVars, annotatorVars, batch, pipelineVars>>

\* extract_html_parts on the text reassemble_html has returned.
ExtractAgain ==
    /\ ex.pc = "reassembled"
    /\ ex' = [ex EXCEPT !.pc = "again", !.again = ExtractParts(ParseText(ex.out))]
    /\ UNCHANGED <<math_content_store, sh, tr, trans_dir, mapperVars, annotatorVars, batch, pipelineVars>>

(***************************************************************************)
(* WebCrawler.batch_crawl, fetch_page_content and _save_original_html.     *)
(***************************************************************************)
MAX_RETRIES == 3

\* The manifests that are crawled.
CrawlManifests ==
    {<< >>,
     <<<<Dom, "/", SB, "/", "a">>>>,
     <<<<Dom, "/", SB, "/">>, <<Dom, "/", SB, "/", "a">>>>,
     <<<<Dom, "/", SB, "/", "a">>, <<Dom, "/", SB, "/", "b", "/">>>>}

\* f"_{counter}" for the counters that occur.
CounterSuffix == <<"_1", "_2", "_3">>

\* _save_original_html, the name from the URL: the last segment of the path,
\* index when that is empty, with .html unless it ends so.
CrawlerFilename(url) ==
    LET last == LastPart(Strip(UrlPath(url)))
        filename == IF last = << >> THEN <<"index">> ELSE last
    IN  IF filename[Len(filename)] = ".html" THEN filename ELSE filename \o <<".html">>

\* _save_original_html, the loop `while file_path.exists()`.
RECURSIVE NumberedName(_, _, _)
NumberedName(original_filename, existing, counter) ==
    LET name == SubSeq(original_filename, 1, Len(original_filename) - 1)
        filename == name \o <<CounterSuffix[counter]>> \o <<".html">>
    IN  IF filename \in existing THEN NumberedName(original_filename, existing, counter + 1)
        ELSE filename

\* The name under which _save_original_html(url, html_content) saves the page
\* when ORIGIN_DIR holds the files `existing`.
SavedFilename(url, existing) ==
    IF CrawlerFilename(url) \in existing
    THEN NumberedName(CrawlerFilename(url), existing, 1)
    ELSE CrawlerFilename(url)

\* (mutant) the crawler waits after every failed attempt.
SleepsAfter_Always(attempt) == TRUE

\* `if attempt < self.max_retries - 1`: the crawler waits after the attempt.
SleepsAfter(attempt) == attempt < MAX_RETRIES - 1

NoResult == <<"None">>

\* batch_crawl: the list of URLs, the index of the URL that is fetched, the
\* attempt of fetch_page_content; for each URL of the list the number of
\* calls of crawler.arun, of waits and of files saved, and what
\* fetch_page_content returned (the name of the saved file stands for
\* page_data, NoResult for None); the files of ORIGIN_DIR; the number of
\* crawls so far.
NoCrawl == [pc |-> "idle", url_list |-> << >>, i |-> 1, attempt |-> 0,
            attempts |-> << >>, sleeps |-> << >>, saves |-> << >>, results |-> << >>,
            origin_dir |-> {}, runs |-> 0]

CrawlStart == cr = NoCrawl

\* fetch_page_content(url) has returned result: batch_crawl appends it and
\* goes on with the next URL.
FetchReturns(c, result) ==
    [c EXCEPT !.results = Append(@, result),
              !.i = @ + 1,
              !.attempt = 0,
              !.pc = IF c.i = Len(c.url_list) THEN "done" ELSE "attempt"]

\* batch_crawl(url_list), up to the first fetch.
BatchCrawl ==
    /\ cr.pc \in {"idle", "done"}
    /\ cr.runs < MaxRuns
    /\ \E url_list \in CrawlManifests :
          cr' = [cr EXCEPT !.url_list = url_list, !.i = 1, !.attempt = 0,
                           !.attempts = [k \in DOMAIN url_list |-> 0],
                           !.sleeps = [k \in DOMAIN url_list |-> 0],
                           !.saves = [k \in DOMAIN url_list |-> 0],
                           !.results = << >>,
                           !.runs = @ + 1,
                           !.pc = IF url_list = << >> \/ MAX_RETRIES = 0 THEN "done"
                                  ELSE "attempt"]
    /\ UNCHANGED <<translatorVars, mapperVars, annotatorVars, batch, pl>>

\* One pass of `for attempt in range(self.max_retries)`: crawler.arun answers
\* with success (the page is saved and returned), answers without success,
\* or it, or the saving of the page, raises.
FetchAttempt ==
    /\ cr.pc = "attempt"
    /\ \E outcome \in {"success", "failure", "exception", "save_raises"} :
          LET url == cr.url_list[cr.i]
              c == [cr EXCEPT !.attempts[cr.i] = @ + 1]
          IN  IF outcome = "success"
              THEN LET filename == SavedFilename(url, cr.origin_dir)
                   IN  cr' = [FetchReturns(c, filename) EXCEPT
                                 !.saves[cr.i] = @ + 1,
                                 !.origin_dir = @ \cup {filename}]
              ELSE IF SleepsAfter(cr.attempt)
              THEN cr' = [c EXCEPT !.pc = "sleep"]
              ELSE IF cr.attempt + 1 < MAX_RETRIES
              THEN cr' = [c EXCEPT !.attempt = @ + 1]
              ELSE cr' = FetchReturns(c, NoResult)
    /\ UNCHANGED <<translatorVars, mapperVars, annotatorVars, batch, pl>>

\* await asyncio.sleep(self.request_delay * (attempt + 1)) after an attempt
\* that failed; the loop goes on with the next attempt, or ends and
\* fetch_page_content returns None.
Sleep ==
    /\ cr.pc = "sleep"
    /\ LET c == [cr EXCEPT !.sleeps[cr.i] = @ + 1]
       IN  IF cr.attempt + 1 < MAX_RETRIES
           THEN cr' = [c EXCEPT !.attempt = @ + 1, !.pc = "attempt"]
           ELSE cr' = FetchReturns(c, NoResult)
    /\ UNCHANGED <<translatorVars, mapperVars, annotatorVars, batch, pl>>

(***************************************************************************)
(* TranslationPipeline.run_full_pipeline.  A stage is one call of           *)
(* step1_crawl_pages ... step4_add_headers; what the stage does to the      *)
(* files is in the specifications of the components, here it sets its       *)
(* counters of self.stats and returns True or False.                        *)
(***************************************************************************)
NewPipelineStats ==
    [crawl_success |-> 0, crawl_failed |-> 0, translate_success |-> 0,
     translate_failed |-> 0, translate_skipped |-> 0, localize_links |-> 0,
     add_headers |-> 0]

\* run_full_pipeline: the position, the stages that were called and what
\* each returned, self.stats, whether the final statistics were shown.
NoPipeline == [pc |-> "idle", executed |-> << >>, results |-> << >>,
               stats |-> NewPipelineStats, finished |-> FALSE]

PipelineStart == pl = NoPipeline

\* (mutant) the next stage is called whatever the stage returned.
AfterStage_IgnoreFailure(p, stage, result, next) ==
    [p EXCEPT !.executed = Append(@, stage),
              !.results = Append(@, result),
              !.pc = next]

\* `if not await self.stepN(...): return self.stats`: after a stage that
\* returned False the pipeline returns, else it goes on to `next`.
AfterStage(p, stage, result, next) ==
    [p EXCEPT !.executed = Append(@, stage),
              !.results = Append(@, result),
              !.pc = IF result THEN next ELSE "done"]

\* run_full_pipeline up to the first stage; initialize_components may raise.
RunFullPipeline ==
    /\ pl.pc = "idle"
    /\ \E raises \in BOOLEAN :
          pl' = [pl EXCEPT !.pc = IF raises THEN "done" ELSE "step1"]
    /\ UNCHANGED <<translatorVars, mapperVars, annotatorVars, batch, cr>>

\* The counts of a batch of at least one and at most MaxManifest items over
\* two outcomes.
Counts2 ==
    {c \in [a : 0..MaxManifest, b : 0..MaxManifest] : c.a + c.b \in 1..MaxManifest}

\* step1_crawl_pages: False without the manifest file, without results or
\* after an exception; else the counters are set and the stage succeeds when
\* a page was fetched.
Step1CrawlPages ==
    /\ pl.pc = "step1"
    /\ \/ pl' = AfterStage(pl, "crawl", FALSE, "step2")
       \/ \E c \in Counts2 :
             pl' = [AfterStage(pl, "crawl", c.a > 0, "step2") EXCEPT
                       !.stats.crawl_success = c.a,
                       !.stats.crawl_failed = c.b]
    /\ UNCHANGED <<translatorVars, mapperVars, annotatorVars, batch, cr>>

\* step2_translate_pages(): False without files or after an exception; else
\* the counters are set (no file is counted as success, see
\* TranslateHtmlFile and TranslateBatchItem) and the stage succeeds when a
\* file was counted as success or as skipped.
Step2TranslatePages ==
    /\ pl.pc = "step2"
    /\ \/ pl' = AfterStage(pl, "translate", FALSE, "step3")
       \/ \E c \in Counts2 :
             pl' = [AfterStage(pl, "translate", 0 + c.b > 0, "step3") EXCEPT
                       !.stats.translate_success = 0,
                       !.stats.translate_failed = c.a,
                       !.stats.translate_skipped = c.b]
    /\ UNCHANGED <<translatorVars, mapperVars, annotatorVars, batch, cr>>

\* step3_localize_links: False after an exception, else the counter is set
\* and the stage succeeds.
Step3LocalizeLinks ==
    /\ pl.pc = "step3"
    /\ \/ pl' = AfterStage(pl, "localize", FALSE, "step4")
       \/ \E links_converted \in 0..MaxLinks :
             pl' = [AfterStage(pl, "localize", TRUE, "step4") EXCEPT
                       !.stats.localize_links = links_converted]
    /\ UNCHANGED <<translatorVars, mapperVars, annotatorVars, batch, cr>>

\* step4_add_headers: False after an exception, else the counter is set and
\* the stage succeeds; the pipeline then shows the statistics and returns.
Step4AddHeaders ==
    /\ pl.pc = "step4"
    /\ \/ pl' = AfterStage(pl, "headers", FALSE, "done")
       \/ \E headers_added \in 0..MaxManifest :
             pl' = [AfterStage(pl, "headers", TRUE, "done") EXCEPT
                       !.stats.add_headers = headers_added,
                       !.finished = TRUE]
    /\ UNCHANGED <<translatorVars, mapperVars, annotatorVars, batch, cr>>

(***************************************************************************)
(* Specifications.                                                         *)
(***************************************************************************)
TranslatorUnused ==
    /\ ex = NoExtract
    /\ pl = NoPipeline
    /\ cr = NoCrawl
    /\ math_content_store = EmptyStore
    /\ sh = NoRoundTrip
    /\ trans_dir = [f \in FileNames |-> NoFile]
    /\ tr = Idle("None", "new", trans_dir)

AnnotatorUnused ==
    /\ page_name = << >>
    /\ file_url_mapping = EmptyFileMapping
    /\ hstats = NewHeaderStats
    /\ hd = NoHeaderCall

MapperUnused ==
    /\ uf = NoUrl
    /\ urls_config = << >>
    /\ out_files = {}
    /\ page = << >>
    /\ url_mapping = EmptyMapping
    /\ stats = NewStats
    /\ lk = NoCall

\* One body through shield, translation and restoration.
NextRoundTrip == Shield \/ TranslateBody \/ Restore

PostUnused ==
    AnnotatorUnused /\ batch = NoBatch /\ ex = NoExtract /\ pl = NoPipeline /\ cr = NoCrawl

InitRoundTrip ==
    /\ PostUnused
    /\ RoundTripStart
    /\ trans_dir = [f \in FileNames |-> NoFile]
    /\ tr = Idle("None", "new", trans_dir)
    /\ MapperUnused

SpecRoundTrip == InitRoundTrip /\ [][NextRoundTrip]_vars

\* translate_html calls, one after the other, on one HTMLTranslator instance.
NextTranslate ==
    Call \/ Metadata \/ ShieldBody \/ BodyFails \/ BodyTranslated \/ Reassemble \/ WriteFile

InitTranslate ==
    /\ PostUnused
    /\ TranslateStart
    /\ sh = NoRoundTrip
    /\ MapperUnused

SpecTranslate == InitTranslate /\ [][NextTranslate]_vars


\* _url_to_filename applied to one URL.
NextUrl == ConvertUrl

InitUrl ==
    /\ AnnotatorUnused
    /\ batch = NoBatch
    /\ TranslatorUnused
    /\ UrlStart
    /\ urls_config = << >>
    /\ out_files = {}
    /\ page = << >>
    /\ url_mapping = EmptyMapping
    /\ stats = NewStats
    /\ lk = NoCall

SpecUrl == InitUrl /\ [][NextUrl]_vars

\* build_url_mapping calls while files of the output directory come and go.
NextMap == BuildUrlMapping \/ DeleteFile \/ CreateFile

InitMap == TranslatorUnused /\ AnnotatorUnused /\ batch = NoBatch /\ MapStart

SpecMap == InitMap /\ [][NextMap]_vars

\* The mapping is built and the page is processed, again and again.
NextLinks == BuildUrlMapping \/ ProcessHtmlFile

InitLinks == TranslatorUnused /\ AnnotatorUnused /\ batch = NoBatch /\ LinksStart

SpecLinks == InitLinks /\ [][NextLinks]_vars

\* The two post-processing steps on one file, in any order: each builds its
\* mapping and processes the file.
NextPost == BuildUrlMapping \/ ProcessHtmlFile \/ BuildFileUrlMapping \/ AnnotateFile

InitPost == TranslatorUnused /\ PostStart /\ batch = NoBatch

SpecPost == InitPost /\ [][NextPost]_vars

\* Batch steps over the files of the directories, one after the other.
NextBatch ==
    \/ TranslateBatchStart \/ TranslateBatchItem
    \/ LocalizeBatchStart \/ LocalizeBatchItem
    \/ HeadersBatchStart \/ HeadersBatchItem

InitBatch == TranslatorUnused /\ BatchStart /\ batch = NoBatch

SpecBatch == InitBatch /\ [][NextBatch]_vars

\* One text is taken apart, put together again and taken apart once more.
NextParts == Extract \/ ReassembleParts \/ ExtractAgain

InitParts ==
    /\ PartsStart
    /\ pl = NoPipeline
    /\ cr = NoCrawl
    /\ math_content_store = EmptyStore
    /\ sh = NoRoundTrip
    /\ trans_dir = [f \in FileNames |-> NoFile]
    /\ tr = Idle("None", "new", trans_dir)
    /\ MapperUnused
    /\ AnnotatorUnused
    /\ batch = NoBatch

SpecParts == InitParts /\ [][NextParts]_vars

\* Crawls of a manifest, one after the other.
NextCrawl == BatchCrawl \/ FetchAttempt \/ Sleep

InitCrawl ==
    /\ CrawlStart
    /\ pl = NoPipeline
    /\ ex = NoExtract
    /\ math_content_store = EmptyStore
    /\ sh = NoRoundTrip
    /\ trans_dir = [f \in FileNames |-> NoFile]
    /\ tr = Idle("None", "new", trans_dir)
    /\ MapperUnused
    /\ AnnotatorUnused
    /\ batch = NoBatch

SpecCrawl == InitCrawl /\ [][NextCrawl]_vars

\* The coroutine of the crawl is resumed whenever the awaited call or wait
\* has ended.
SpecCrawlFair == SpecCrawl /\ WF_vars(FetchAttempt) /\ WF_vars(Sleep)

\* One run of run_full_pipeline.
NextPipeline ==
    \/ RunFullPipeline \/ Step1CrawlPages \/ Step2TranslatePages
    \/ Step3LocalizeLinks \/ Step4AddHeaders

InitPipeline ==
    /\ PipelineStart
    /\ cr = NoCrawl
    /\ ex = NoExtract
    /\ math_content_store = EmptyStore
    /\ sh = NoRoundTrip
    /\ trans_dir = [f \in FileNames |-> NoFile]
    /\ tr = Idle("None", "new", trans_dir)
    /\ MapperUnused
    /\ AnnotatorUnused
    /\ batch = NoBatch

SpecPipeline == InitPipeline /\ [][NextPipeline]_vars

(***************************************************************************)
(* Properties of the Content Shield and of restoration (SpecRoundTrip).    *)
(***************************************************************************)
\* The number of math containers of the body that is being processed.
NumContainers == Len(FindAll(sh.body, MJX))

\* The N tokens MATH_PLACEHOLDER_000 .. in order.
TokensUpTo(n) == [i \in 1..n |-> Placeholder(i - 1)]

\* The translated body is the shielded body, and all N tokens are in it.
Untouched ==
    /\ sh.pc = "restored"
    /\ sh.translated = sh.cleaned
    /\ SpanKeys(sh.cleaned) = TokensUpTo(NumContainers)

\* Shielding records exactly the tokens 0..N-1, each with the markup of the
\* container of that position in document order as found in `tree`.
RecordsInOrder(tree) ==
    /\ DOMAIN math_content_store = Range(TokensUpTo(NumContainers))
    /\ Cardinality(DOMAIN math_content_store) = NumContainers
    /\ \A i \in 1..NumContainers :
          math_content_store[Placeholder(i - 1)] = Containers(tree)[i]

\* C1 as stated: for a body with N math containers the shield records
\* exactly N distinct tokens numbered 0..N-1 in document order, and restoring
\* the unmodified shielded body that holds all N tokens yields the original N
\* containers of the body, unchanged and in the same order.
C1_OriginalContainersUnchanged ==
    /\ sh.pc \in {"shielded", "translated", "restored"} =>
          /\ DOMAIN math_content_store = Range(TokensUpTo(NumContainers))
          /\ Cardinality(DOMAIN math_content_store) = NumContainers
    /\ Untouched => Containers(sh.restored) = Containers(sh.body)

\* C1 as amended: the shield records exactly N distinct tokens numbered
\* 0..N-1 in document order, and restoring the unmodified shielded body that
\* holds all N tokens yields the N containers in the same order, each
\* unchanged except that the comments inside it are gone (the restored body
\* is the original body without its comments).
C1_ContainersRestoredWithoutComments ==
    /\ sh.pc \in {"shielded", "translated", "restored"} =>
          RecordsInOrder(RemoveComments(sh.body))
    /\ Untouched =>
          /\ Containers(sh.restored) = Containers(RemoveComments(sh.body))
          /\ sh.restored = RemoveComments(sh.body)

\* C1 witness: two different containers, one with a comment inside, shielded
\* and restored from the untouched shielded body.
C1_Witness ==
    /\ Untouched
    /\ NumContainers = 2
    /\ Containers(sh.body)[1] # Containers(sh.body)[2]
    /\ Containers(sh.body) # Containers(RemoveComments(sh.body))
    /\ Len(Containers(sh.restored)) = 2

\* C2: for every document, nested containers included, the tokens recorded in
\* the placeholder map are the tokens consumed when the untouched translated
\* body is restored: every recorded token is in the shielded body, is restored
\* exactly once, and none is left unconsumed.
C2_RecordedEqualsConsumed ==
    (sh.pc = "restored" /\ sh.translated = sh.cleaned) =>
        /\ Range(RestoredKeys(sh.translated, math_content_store)) = DOMAIN math_content_store
        /\ \A k \in DOMAIN math_content_store : CountTok(sh.cleaned, Span(k)) = 1

\* C6: a placeholder of the translated body whose token has no entry in the
\* map stays in place as it is, restoration completes, and every placeholder
\* that has an entry is replaced by its recorded markup.
C6_UnknownPlaceholderLeft ==
    sh.pc = "restored" =>
        LET keys == RestoredKeys(sh.translated, math_content_store) IN
        /\ \A i \in DOMAIN sh.translated :
              (IsSpan(sh.translated[i]) /\ sh.translated[i].name \notin DOMAIN math_content_store)
              => CountTok(sh.restored, sh.translated[i]) = CountTok(sh.translated, sh.translated[i])
        /\ \A k \in DOMAIN math_content_store : CountTok(sh.restored, Span(k)) = 0
        /\ Containers(sh.restored)
              = Flatten([i \in DOMAIN keys |-> Containers(math_content_store[keys[i]])])

\* C6 witness: the translated body holds a placeholder without an entry and
\* one with an entry; the first is still there after restoration, the second
\* has become its container.
C6_Witness ==
    /\ sh.pc = "restored"
    /\ CountTok(sh.translated, Span(UnknownKey)) = 1
    /\ CountTok(sh.restored, Span(UnknownKey)) = 1
    /\ Len(RestoredKeys(sh.translated, math_content_store)) = 1
    /\ Len(Containers(sh.restored)) = 1

(***************************************************************************)
(* Properties of translate_html (SpecTranslate).                           *)
(***************************************************************************)
\* C3: over any sequence of translate_html calls on one instance, the map
\* consulted when a document is restored holds only entries recorded while
\* that document was shielded, and markup of an earlier document never gets
\* into a later one.
C3_StoreOfCurrentDocument ==
    /\ tr.pc = "reassemble" =>
          \A k \in DOMAIN math_content_store :
             \E i \in DOMAIN Containers(RemoveComments(tr.parts.body_content)) :
                /\ k = Placeholder(i - 1)
                /\ math_content_store[k] = Containers(RemoveComments(tr.parts.body_content))[i]
    /\ tr.pc = "write" =>
          \A i \in DOMAIN Containers(tr.complete_html.body) :
             \E j \in DOMAIN Containers(tr.parts.body_content) :
                RemoveComments(Containers(tr.complete_html.body)[i])
                   = RemoveComments(Containers(tr.parts.body_content)[j])

\* C4: when the body translation call gives no usable result (None, an empty
\* translated_html, an exception), translate_html returns None and the files
\* of TRANS_DIR are as they were when the call started.
C4_BodyFailureWritesNothing ==
    tr.body_response \in {"none", "empty", "raise"} =>
        /\ tr.pc = "idle"
        /\ tr.ret = "None"
        /\ trans_dir = tr.dir0

\* C4 witness: the body call failed in a call made when a translated file
\* already existed.
C4_Witness ==
    /\ tr.body_response = "empty"
    /\ tr.ret = "None"
    /\ trans_dir[FileName([file |-> TRUE, name |-> "a.html"])] # NoFile

C7_KeysResolveToExistingFiles ==
    lk.op = "build" =>
        \A u \in DOMAIN url_mapping : url_mapping[u] \in lk.existing_files

\* C7 witness: a build found entries of the previous build whose files had
\* been deleted, and produced a mapping that is not empty.
C7_Witness ==
    /\ lk.op = "build"
    /\ lk.had_stale
    /\ url_mapping # EmptyMapping

\* The lines of the manifest that are URLs.
ManifestUrls ==
    {urls_config[i] : i \in {j \in DOMAIN urls_config :
                               urls_config[j] # << >> /\ Head(urls_config[j]) # "#"}}

\* A URL with its trailing slash taken away, or added when it has none.
Toggled(u) == IF u[Len(u)] = "/" THEN RStrip(u) ELSE u \o <<"/">>

\* C8: after a build, every manifest URL whose derived file name exists is a
\* key, and so is its slash-toggled variant, both resolving to that file name;
\* a manifest URL whose derived file name does not exist gives no entry,
\* neither for itself nor for its variant.
C8_BothVariantsOrNone ==
    (lk.op = "build" /\ lk.ok) =>
        \A u \in ManifestUrls :
           IF UrlToFilename(u) \in lk.existing_files
           THEN /\ {u, Toggled(u)} \subseteq DOMAIN url_mapping
                /\ url_mapping[u] = UrlToFilename(u)
                /\ url_mapping[Toggled(u)] = UrlToFilename(u)
           ELSE /\ u \notin DOMAIN url_mapping
                /\ Toggled(u) \notin DOMAIN url_mapping

\* C8 witness: a manifest with a URL whose file exists and one whose file
\* does not, after a build.
C8_Witness ==
    /\ lk.op = "build" /\ lk.ok
    /\ \E u, v \in ManifestUrls :
          /\ UrlToFilename(u) \in lk.existing_files
          /\ u[Len(u)] = "/"
          /\ Toggled(u) \in DOMAIN url_mapping
          /\ UrlToFilename(v) \notin lk.existing_files
          /\ v \notin DOMAIN url_mapping

\* The rule C9 states: the fixed root file name for an empty path or the root
\* segment, otherwise the last non-empty segment of the path plus ".html".
LastSegmentRule(url) ==
    LET path == Strip(UrlPath(url)) IN
    IF path = << >> \/ path = <<SB>> THEN RootFile
    ELSE LastPart(path) \o <<".html">>

\* C9: for every URL _url_to_filename (of the link localizer and of the
\* header adder) returns the root file name when the stripped path is empty
\* or the root segment, and otherwise the last non-empty path segment
\* followed by .html, also two or more segments below the root segment.
C9_LastSegmentNamesTheFile ==
    uf.pc = "done" =>
        /\ uf.filename = LastSegmentRule(uf.url)
        /\ uf.header_filename = LastSegmentRule(uf.url)

(***************************************************************************)
(* Properties of the Link Rewriter (SpecLinks).                            *)
(***************************************************************************)
\* The href is one the rewriter is to handle: it starts with the source
\* domain and is neither a fragment nor of another scheme.
DomainHref(t) ==
    /\ t.attr = "href"
    /\ IsPrefix(base_domain, t.value)

\* The file name the mapping gives for a value, looked up verbatim and then
\* without trailing slashes; << >> when neither is a key.
Resolved(value, mapping) ==
    IF value \in DOMAIN mapping THEN mapping[value]
    ELSE IF RStrip(value) \in DOMAIN mapping THEN mapping[RStrip(value)]
    ELSE << >>

\* C10: every href that starts with the source domain is looked up verbatim
\* and then slash-normalized; when either is a key the attribute becomes the
\* mapped file name and the conversion count goes up by one, otherwise the
\* attribute stays and links_skipped goes up by one; hrefs that do not match
\* the domain are never changed.
C10_HrefsResolvedOrSkipped ==
    lk.op = "convert" =>
        LET before == lk.page0
            after == lk.converted_content
            hit == {i \in DOMAIN before :
                      DomainHref(before[i]) /\ Resolved(before[i].value, lk.mapping0) # << >>}
            miss == {i \in DOMAIN before :
                      DomainHref(before[i]) /\ Resolved(before[i].value, lk.mapping0) = << >>}
        IN  /\ DOMAIN after = DOMAIN before
            /\ \A i \in hit :
                  after[i] = [before[i] EXCEPT !.value = Resolved(before[i].value, lk.mapping0)]
            /\ \A i \in DOMAIN before \ hit : after[i] = before[i]
            /\ lk.converted_count = Cardinality(hit)
            /\ stats.links_skipped = lk.skipped0 + Cardinality(miss)

\* C10 witness: a page with an href that resolves only without its trailing
\* slashes and an href of the domain that does not resolve, after conversion.
C10_Witness ==
    /\ lk.op = "convert"
    /\ \E i, j \in DOMAIN lk.page0 :
          /\ DomainHref(lk.page0[i])
          /\ lk.page0[i].value \notin DOMAIN lk.mapping0
          /\ lk.converted_content[i].value = <<"a", ".html">>
          /\ DomainHref(lk.page0[j])
          /\ lk.converted_content[j] = lk.page0[j]
    /\ lk.converted_count = 1
    /\ stats.links_skipped = lk.skipped0 + 1


\* C11: when process_html_file runs on the file a second time with the
\* mapping of the run before, the second run converts nothing; and the
\* conversion count of a run is the number of href attributes that start with
\* the source domain and have a mapping entry (verbatim or slash-normalized).
C11_SecondRunConvertsNothing ==
    [][ /\ lk'.op = "convert" =>
              lk'.converted_count =
                  Cardinality({i \in DOMAIN lk'.page0 :
                                  /\ DomainHref(lk'.page0[i])
                                  /\ Resolved(lk'.page0[i].value, lk'.mapping0) # << >>})
        /\ (lk.op = "convert" /\ lk'.op = "convert" /\ lk'.mapping0 = lk.mapping0)
              => (lk'.converted_count = 0 /\ page' = page) ]_vars

\* C11 witness: the second run on a file whose first run converted links,
\* with a mapping that has entries; nothing is converted.
C11_Witness ==
    /\ lk.op = "convert"
    /\ stats.files_processed = 2
    /\ stats.links_converted >= 1
    /\ lk.mapping0 # EmptyMapping
    /\ lk.converted_count = 0
    /\ \E i \in DOMAIN page : page[i].value = <<"a", ".html">> /\ page[i].tag = "a"

\* C16: the Link Rewriter changes anchors only: elements with a src
\* attribute and elements other than <a> with an href attribute (<link>)
\* that match the source domain are left as they are.
C16_OnlyAnchorsRewritten ==
    lk.op = "convert" =>
        \A i \in DOMAIN lk.page0 :
            lk.page0[i].tag # "a" => lk.converted_content[i] = lk.page0[i]

\* C17: process_html_file writes the file exactly when a link was converted:
\* then the file holds the converted text and files_modified goes up by one,
\* links_converted by the number of conversions; with no conversion the
\* file and the two counters stay as they are.
C17_WrittenIffConverted ==
    [][ (lk'.op = "convert" /\ stats'.files_processed = stats.files_processed + 1) =>
          LET hit == {i \in DOMAIN page :
                         DomainHref(page[i]) /\ Resolved(page[i].value, url_mapping) # << >>}
          IN  IF hit # {}
              THEN /\ page' # page
                   /\ page' = lk'.converted_content
                   /\ stats'.files_modified = stats.files_modified + 1
                   /\ stats'.links_converted = stats.links_converted + Cardinality(hit)
              ELSE /\ page' = page
                   /\ stats'.files_modified = stats.files_modified
                   /\ stats'.links_converted = stats.links_converted ]_vars

\* C17 witness: a run that converted links and wrote the file was followed
\* by a run that converted nothing and left the file and the counters.
C17_Witness ==
    /\ lk.op = "convert"
    /\ lk.converted_count = 0
    /\ page = lk.page0
    /\ stats.files_processed = 2
    /\ stats.files_modified = 1
    /\ stats.links_converted = 2

\* The order of the steps of one translate_html call: a step begins when
\* the one before has returned; a failed body translation or reassembly ends
\* the call.
StepOrder ==
    {<<"idle", "metadata">>, <<"metadata", "shield">>, <<"shield", "body">>,
     <<"body", "reassemble">>, <<"reassemble", "write">>, <<"write", "idle">>,
     <<"body", "idle">>, <<"reassemble", "idle">>}

\* C19: within one translate_html call the metadata translation, the
\* shielding and translation of the body, the reassembly and the write of
\* the file happen one after the other in this order, and a file is written
\* only with the text that a reassembly which did not fail returned.
C19_StepsInOrder ==
    [][ /\ tr'.pc # tr.pc => <<tr.pc, tr'.pc>> \in StepOrder
        /\ trans_dir' # trans_dir =>
              /\ tr.pc = "write"
              /\ tr.complete_html =
                     ReassembleHtml(tr.parts, tr.translated_body, tr.metadata.title,
                                    tr.metadata.description, math_content_store)
              /\ trans_dir' = [trans_dir EXCEPT ![FileName(tr.context)] = tr.complete_html]
        /\ tr'.pc = "write" =>
              tr'.complete_html =
                  ReassembleHtml(tr.parts, tr.translated_body, tr.metadata.title,
                                 tr.metadata.description, math_content_store) ]_vars

\* C19 witness: a call went through all the steps and wrote its file.
C19_Witness ==
    /\ tr.pc = "idle"
    /\ tr.outcome = "written"
    /\ tr.meta_response = "ok"
    /\ trans_dir[tr.ret] = tr.complete_html
    /\ tr.complete_html # NoFile

(***************************************************************************)
(* Properties of the post-processing steps on one file (SpecPost).         *)
(***************************************************************************)
\* The mappings that complete builds give for the manifest and the files.
FullUrlMapping == BuildMapping(urls_config, out_files, EmptyMapping, NoFail)
FullFileMapping == BuildFileMapping(urls_config, out_files, NoFail)

\* C12: once the Link Rewriter and the Provenance Annotator have each run on
\* the file (here: the last call of each was a run on the file, with the
\* mapping a complete build gives, and the mappings are still those), no
\* further step of either changes the file.
C12_FurtherRunsChangeNothing ==
    [][ ( /\ lk.op = "convert" /\ lk.mapping0 = FullUrlMapping
          /\ url_mapping = FullUrlMapping /\ url_mapping' = FullUrlMapping
          /\ hd.op = "annotate" /\ hd.mapping0 = FullFileMapping /\ hd.outcome # "raised"
          /\ file_url_mapping = FullFileMapping /\ file_url_mapping' = FullFileMapping )
        => page' = page ]_vars

\* The number of provenance header blocks of a page.
HeaderBlocks(html_content) ==
    Cardinality({i \in DOMAIN html_content :
                    html_content[i] = OpenDiv(<<Marker, "base-grid">>)})

\* C13: however often the Provenance Annotator runs on the file, the file
\* never holds more than one header block; a run on a file that contains
\* the marker changes nothing, and a run on a file without the marker that
\* has a mapping entry and an insertion point inserts the block.
C13_AtMostOneHeaderBlock ==
    /\ HeaderBlocks(page) <= 1
    /\ hd.op = "annotate" =>
          /\ HasMarker(hd.page0) => hd.content = hd.page0
          /\ ( /\ ~HasMarker(hd.page0)
               /\ hd.filename \in DOMAIN hd.mapping0
               /\ FindInsertionPoint(hd.page0).found
               /\ hd.outcome # "raised" )
             => (HeaderBlocks(hd.content) = 1 /\ hd.outcome = "added")

\* C13 witness: the second run on the file, after the first inserted the
\* block, finds the marker and leaves the one block.
C13_Witness ==
    /\ hd.op = "annotate"
    /\ hd.runs = 2
    /\ hd.outcome = "has_header"
    /\ HeaderBlocks(hd.page0) = 1
    /\ HeaderBlocks(page) = 1

\* The insertion point as the three rules name it: the first div whose class
\* is exactly 'post distill', else the first div whose class list contains
\* the classes post and distill, else the parent of the first d-title.
ClassListHasBoth(t) ==
    /\ t.tag = "div"
    /\ \E i \in DOMAIN t.value : t.value[i] = "post"
    /\ \E i \in DOMAIN t.value : t.value[i] = "distill"

PointByRules(soup) ==
    LET p1 == FirstIndex({i \in DOMAIN soup : IsPostDistill(soup[i])})
        p2 == FirstIndex({i \in DOMAIN soup : ClassListHasBoth(soup[i])})
        p3 == FirstIndex({i \in DOMAIN soup : soup[i].tag = "d-title"})
    IN  IF p1 # 0 THEN [found |-> TRUE, at |-> p1]
        ELSE IF p2 # 0 THEN [found |-> TRUE, at |-> p2]
        ELSE IF p3 # 0 THEN [found |-> TRUE, at |-> ParentOf(soup, p3)]
        ELSE NoPoint

\* C14: the header block goes in as the first child of the container that
\* the three rules give, tried in their order; when none gives a container
\* nothing is inserted.
C14_InsertionPointByPriority ==
    (hd.op = "annotate" /\ hd.filename \in DOMAIN hd.mapping0
        /\ ~HasMarker(hd.page0) /\ hd.outcome # "raised") =>
        LET p == PointByRules(hd.page0) IN
        IF p.found
        THEN hd.content = InsertFirstChild(hd.page0, p.at,
                                           CreateHeaderHtml(hd.mapping0[hd.filename]))
        ELSE hd.content = hd.page0

(***************************************************************************)
(* Properties of the batch steps (SpecBatch).                              *)
(***************************************************************************)
\* C15: when process_all_files of the Provenance Annotator has returned, a
\* file without a mapping entry was looked at with all the other files and
\* is counted in files_skipped; a file without an insertion point is left
\* as it was and counted in files_skipped.
C15_UnmatchedFilesCountedSkipped ==
    (batch.step = "headers" /\ batch.pc = "done") =>
        /\ page_name \notin DOMAIN file_url_mapping =>
              /\ hstats.files_skipped >= 1
              /\ \E k \in DOMAIN batch.attempted : batch.attempted[k] = page_name
              /\ Len(batch.attempted) = Cardinality(out_files)
        /\ (hd.op = "annotate" /\ hd.outcome \in {"no_point", "no_url"}) =>
              /\ hd.content = hd.page0
              /\ hstats.files_skipped >= hd.stats0.files_skipped + 1

\* C18: in each batch step the files whose processing was started are the
\* files of the list up to the loop position, whatever the earlier calls
\* returned or raised; when the step has returned, every file of the list
\* was processed once.
C18_EveryFileAttemptedOnce ==
    /\ batch.i <= Len(batch.html_files) + 1
    /\ batch.attempted = SubSeq(batch.html_files, 1, batch.i - 1)
    /\ Len(batch.rets) = Len(batch.attempted)
    /\ batch.pc = "loop" => batch.i <= Len(batch.html_files)
    /\ batch.pc = "done" => batch.attempted = batch.html_files

\* C18 witness: a batch of the Provenance Annotator over two files has
\* returned; the call for the first file failed and the second file was
\* processed all the same.
C18_Witness ==
    /\ batch.step = "headers"
    /\ batch.pc = "done"
    /\ Len(batch.html_files) = 2
    /\ batch.rets[1] = "False"
    /\ batch.attempted = batch.html_files

(***************************************************************************)
(* Properties of extract_html_parts (SpecParts).                           *)
(***************************************************************************)
\* C20: extract_html_parts fails for no text, and a part that is missing
\* comes out as its default: the doctype <!DOCTYPE html>, no attributes, an
\* empty head or body fragment, the empty title or description.
C20_ExtractNeverFails ==
    ex.pc = "done" =>
        LET t == ex.html_content
            p == ex.parts
        IN  /\ ~p.raised
            /\ t.doctype = NoItem => p.doctype = DefaultDoctype
            /\ t.html_attrs = NoTag => p.html_attrs = << >>
            /\ t.head = Absent => p.head_content = EmptyHead
            /\ t.body = Absent => p.body_content = EmptyBody
            /\ t.title = Absent => p.original_title = ""
            /\ t.description = Absent => p.original_description = ""

\* C20 (amended): extract_html_parts fails exactly for the texts the parser
\* rejects; for every other text a part that is missing comes out as its
\* default.
C20_DefaultsUnlessRejected ==
    ex.pc = "done" =>
        LET t == ex.html_content
            p == ex.parts
        IN  /\ p.raised <=> t.rejected
            /\ ~p.raised =>
                  /\ t.doctype = NoItem => p.doctype = DefaultDoctype
                  /\ t.html_attrs = NoTag => p.html_attrs = << >>
                  /\ t.head = Absent => p.head_content = EmptyHead
                  /\ t.body = Absent => p.body_content = EmptyBody
                  /\ t.title = Absent => p.original_title = ""
                  /\ t.description = Absent => p.original_description = ""

\* C20 witness: a text the parser accepts, without doctype, <html>, head,
\* body, title and description, has been taken apart into the defaults.
C20_Witness ==
    /\ ex.pc = "done"
    /\ ~ex.html_content.rejected
    /\ ex.html_content.doctype = NoItem
    /\ ex.html_content.html_attrs = NoTag
    /\ ex.html_content.head = Absent
    /\ ex.html_content.body = Absent
    /\ ex.html_content.title = Absent
    /\ ex.html_content.description = Absent
    /\ ex.parts = [raised |-> FALSE, doctype |-> DefaultDoctype, html_attrs |-> << >>,
                   head_content |-> EmptyHead, body_content |-> EmptyBody,
                   original_title |-> "", original_description |-> ""]

(***************************************************************************)
(* Properties of reassemble_html on the text level (SpecParts).            *)
(***************************************************************************)
\* C21: for non-empty translated title and description, taking the text
\* returned by reassemble_html apart again gives that title, that
\* description and the lang attribute zh-CN on the root tag, whatever the
\* attributes of the original root tag and whatever the original head held.
C21_InjectedValuesRoundTrip ==
    (ex.pc = "again" /\ ex.translated.title # "" /\ ex.translated.description # "") =>
        /\ ex.again.original_title = ex.translated.title
        /\ ex.again.original_description = ex.translated.description
        /\ LangOf(SplitAttrs(ex.again.html_attrs, << >>)) = "zh-CN"

\* The attributes of a root tag other than lang.
OtherAttrs(attrs) ==
    IF attrs = NoTag THEN << >> ELSE SelectSeq(attrs, LAMBDA at : at[1] # "lang=")

\* "" for a missing part.
OrEmpty(part) == IF part = Absent THEN "" ELSE part

\* C22: a text taken apart and put together from the unchanged parts (the
\* body fragment as translated body, no translated title or description) is
\* the text again up to the doctype and the lang attribute: same title,
\* description, body and other root attributes, and lang is zh-CN.
C22_UnchangedPartsRoundTrip ==
    (/\ ex.pc = "again"
     /\ ex.translated = [title |-> "", description |-> "",
                         body |-> <<ex.parts.body_content>>]) =>
        LET D == ex.html_content
            R == ParseText(ex.out)
        IN  /\ R.title = D.title
            /\ R.description = D.description
            /\ OrEmpty(R.body) = OrEmpty(D.body)
            /\ R.stray = {}
            /\ OtherAttrs(R.html_attrs) = OtherAttrs(D.html_attrs)
            /\ LangOf(R.html_attrs) = "zh-CN"

\* C23: a line of text that the translation capability has put before the
\* markup of the body is not in the text reassemble_html returns, and that
\* text holds a document-type declaration.
C23_StrayPrefixRemoved ==
    ex.pc \in {"reassembled", "again"} =>
        /\ \A i \in DOMAIN ex.out : ex.out[i] \notin StrayLines
        /\ \E i \in DOMAIN ex.out : StartsWithDoctypeUpper(ex.out[i])

(***************************************************************************)
(* Properties of translate_html_file and step2_translate_pages (SpecBatch). *)
(***************************************************************************)
\* C24: a call of translate_html_file for a file whose target does not
\* exist, or with force_translate, for which the translation capability
\* answers, returns the path of the target, and the target has been saved.
C24_TranslatesAndReturnsPath ==
    batch.step = "translate" =>
        \A k \in DOMAIN batch.calls :
            (/\ batch.calls[k].capable
             /\ batch.force_translate \/ ~batch.calls[k].existed) =>
                /\ batch.rets[k] = "target_file"
                /\ batch.calls[k].written
                /\ batch.attempted[k] \in out_files

\* C25: a call of translate_html_file without force_translate for a file
\* whose target exists returns the path of the target, does not invoke the
\* translation capability and does not write the target.
C25_ExistingTargetIsReturned ==
    batch.step = "translate" =>
        \A k \in DOMAIN batch.calls :
            (/\ ~batch.force_translate
             /\ batch.calls[k].existed
             /\ batch.rets[k] # "raised") =>
                /\ batch.rets[k] = "target_file"
                /\ ~batch.calls[k].invoked
                /\ ~batch.calls[k].written

\* C25 witness: step2_translate_pages without force_translate has returned
\* for two files whose targets both existed; both calls returned the path.
C25_Witness ==
    /\ batch.step = "translate"
    /\ batch.pc = "done"
    /\ ~batch.force_translate
    /\ Len(batch.html_files) = 2
    /\ \A k \in 1..2 : batch.calls[k].existed /\ batch.rets[k] = "target_file"
    /\ batch.skipped_count = 2

C28_ProvenanceLinkKeepsSourceUrl ==
    \A i \in DOMAIN page :
        page[i] = OpenDiv(<<Marker, "base-grid">>) =>
            /\ i < Len(page)
            /\ page[i + 1].tag = "a" /\ page[i + 1].attr = "href"
            /\ page[i + 1].value \in Range(urls_config)
            /\ page[i + 1].value \notin PageFiles

(***************************************************************************)
(* Properties of run_full_pipeline (SpecPipeline).                         *)
(***************************************************************************)
StageOrder == <<"crawl", "translate", "localize", "headers">>

\* C26: the stages that run_full_pipeline has called are the first stages
\* of crawl, translate, localize links, add headers, in this order; every
\* stage but the last called one has returned success, and after a stage
\* that returned failure the pipeline has returned.
C26_StagesInOrderUntilFailure ==
    /\ Len(pl.executed) <= Len(StageOrder)
    /\ pl.executed = SubSeq(StageOrder, 1, Len(pl.executed))
    /\ Len(pl.results) = Len(pl.executed)
    /\ \A k \in 1..(Len(pl.results) - 1) : pl.results[k]
    /\ (pl.results # << >> /\ ~pl.results[Len(pl.results)]) => pl.pc = "done"
    /\ pl.pc = "step1" => pl.executed = << >>
    /\ pl.pc = "step2" => pl.executed = SubSeq(StageOrder, 1, 1)
    /\ pl.pc = "step3" => pl.executed = SubSeq(StageOrder, 1, 2)
    /\ pl.pc = "step4" => pl.executed = SubSeq(StageOrder, 1, 3)
    /\ pl.finished => pl.executed = StageOrder

\* C26 witness: the crawl succeeded, the translation stage returned failure,
\* and the pipeline has returned without calling the last two stages.
C26_Witness ==
    /\ pl.pc = "done"
    /\ pl.executed = <<"crawl", "translate">>
    /\ pl.results = <<TRUE, FALSE>>

(***************************************************************************)
(* Properties of the crawler (SpecCrawl, SpecCrawlFair).                   *)
(***************************************************************************)
\* C29: every page that a crawl has saved, on the first crawl or on a later
\* one, is in the file that the URL Mapper names for its URL.
C29_SavedUnderMapperName ==
    cr.pc = "done" =>
        \A k \in DOMAIN cr.results :
            cr.results[k] # NoResult => cr.results[k] = UrlToFilename(cr.url_list[k])

\* What holds of the fetches of the running crawl: no URL has more than
\* MAX_RETRIES attempts; a fetch that returned a page has saved it once, after
\* its last attempt, and has waited once between two attempts; a fetch that
\* returned None has made MAX_RETRIES attempts, has saved nothing and has not
\* waited after the last attempt.
FetchesBounded ==
    /\ \A k \in DOMAIN cr.attempts :
          /\ cr.attempts[k] <= MAX_RETRIES
          /\ cr.saves[k] <= 1
    /\ \A k \in DOMAIN cr.results :
          /\ cr.attempts[k] >= 1
          /\ cr.sleeps[k] = cr.attempts[k] - 1
          /\ cr.results[k] # NoResult =>
                (cr.saves[k] = 1 /\ cr.results[k] \in cr.origin_dir)
          /\ cr.results[k] = NoResult =>
                (cr.saves[k] = 0 /\ cr.attempts[k] = MAX_RETRIES)

\* C30: fetch_page_content makes at most MAX_RETRIES attempts, stops at the
\* first success with the page saved once, waits between attempts and not
\* after the last, returns None after MAX_RETRIES failures, and always
\* returns: every crawl that was started comes to its end.
C30_FetchBoundedAndTerminates ==
    /\ []FetchesBounded
    /\ (cr.pc \in {"attempt", "sleep"}) ~> (cr.pc = "done")

\* C30 witness: a crawl of two URLs has ended; the first fetch returned None
\* after MAX_RETRIES attempts and two waits, the second returned the page at
\* its second attempt after one wait.
C30_Witness ==
    /\ cr.pc = "done"
    /\ Len(cr.url_list) = 2
    /\ cr.results[1] = NoResult /\ cr.attempts[1] = MAX_RETRIES
    /\ cr.sleeps[1] = MAX_RETRIES - 1
    /\ cr.results[2] # NoResult /\ cr.attempts[2] = 2 /\ cr.sleeps[2] = 1
    /\ cr.saves[2] = 1

====
